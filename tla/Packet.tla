-------------------------------- MODULE Packet --------------------------------
(***************************************************************************)
(* The text of a packet (src/shared/Packet.cpp): what the client makes of  *)
(* a record and what the server makes of a line.  std::setprecision(6) is  *)
(* abstracted to one decimal and the fuel of a telemetry file to two, so   *)
(* that the packet has fewer decimals than the file can have.              *)
(***************************************************************************)
EXTENDS Common

\* The quantity with the decimals of a packet, as std::fixed rounds it: to the
\* nearest, and to the even one of two that are as near.
Rounded(quantity) ==
  LET low == quantity \div 10
      up  == quantity % 10 > 5 \/ (quantity % 10 = 5 /\ low % 2 = 1)
  IN  IF quantity = NaN THEN NaN ELSE IF up THEN 10 * (low + 1) ELSE 10 * low

\* Wrong variant of Decimal: whole quantities only.
DecimalWhole(quantity) ==
  IF quantity = NaN THEN <<"nan">> ELSE DigitsOf[Rounded(quantity) \div 100]

\* The text of a quantity.
Decimal(quantity) ==
  IF quantity = NaN
    THEN <<"nan">>
    ELSE LET tenths == Rounded(quantity) \div 10
         IN  DigitsOf[tenths \div 10] \o <<Dot, Digit(tenths % 10)>>

Serialize(record) ==
  record.AircraftId \o <<Comma>> \o record.Timestamp \o <<Comma>> \o Decimal(record.FuelQuantity)

\* Wrong variant of Deserialize: a missing quantity is zero.
DeserializeLeniently(packet) ==
  LET parts == Split(packet, Comma)
  IN  IF Len(parts) < 2
        THEN {}
        ELSE {[AircraftId |-> Trim(parts[1]), Timestamp |-> Trim(parts[2]), FuelQuantity |-> q] :
                q \in IF Len(parts) = 2 THEN {0} ELSE Stod(Trim(parts[3]))}

\* The record of a packet, or none when it is refused.  Fields after the third
\* are ignored.
Deserialize(packet) ==
  LET parts == Split(packet, Comma)
  IN  IF Len(parts) < 3
        THEN {}
        ELSE {record \in [AircraftId : {Trim(parts[1])}, Timestamp : {Trim(parts[2])},
                          FuelQuantity : Stod(Trim(parts[3]))] :
                record.AircraftId # <<>> /\ record.Timestamp # <<>>}
=============================================================================
