-------------------------------- MODULE Config --------------------------------
(***************************************************************************)
(* How the configuration files are read (src/shared/Config.h, Utils.cpp):  *)
(* not parsed, but searched for the text of a key and then for the colon,  *)
(* the quotes or the end of the number that follow.                        *)
(***************************************************************************)
EXTENDS Common
LOCAL INSTANCE FiniteSetsExt

\* The characters around the keys and the values, all but one of which the
\* reading looks for.
Quote      == "'"   \* stands for a double quote
Colon      == ":"
OpenBrace  == "{"
CloseBrace == "}"

\* std::string::find of a text of three tokens, or 0.
FindKey(json, key) ==
  LET found == {i \in 1..(Len(json) - 2) : SubSeq(json, i, i + 2) = <<Quote, key, Quote>>}
  IN  IF found = {} THEN 0 ELSE Min(found)

\* Wrong variant of ReadJsonString: it looks for the quotes from the key on.
ReadJsonStringFromKey(json, key, fallback) ==
  LET keyPos      == FindKey(json, key)
      firstQuote  == FindOneOf(json, {Quote}, keyPos)
      secondQuote == FindOneOf(json, {Quote}, firstQuote)
  IN  IF keyPos = 0 \/ firstQuote = 0 \/ secondQuote = 0
        THEN fallback
        ELSE SubSeq(json, firstQuote + 1, secondQuote - 1)

\* The text between the next two quotes after the colon after the key.
ReadJsonString(json, key, fallback) ==
  LET keyPos      == FindKey(json, key)
      colonPos    == FindOneOf(json, {Colon}, keyPos)
      firstQuote  == FindOneOf(json, {Quote}, colonPos)
      secondQuote == FindOneOf(json, {Quote}, firstQuote)
  IN  IF keyPos = 0 \/ colonPos = 0 \/ firstQuote = 0 \/ secondQuote = 0
        THEN fallback
        ELSE SubSeq(json, firstQuote + 1, secondQuote - 1)

\* The number between the colon after the key and the end of the member.
ReadJsonInt(json, key, fallback) ==
  LET keyPos   == FindKey(json, key)
      colonPos == FindOneOf(json, {Colon}, keyPos)
      end      == FindOneOf(json, {Comma, CloseBrace, Newline}, colonPos)
      endPos   == IF end = 0 THEN Len(json) + 1 ELSE end
      value    == Stoi(Trim(SubSeq(json, colonPos + 1, endPos - 1)))
  IN  IF keyPos = 0 \/ colonPos = 0 \/ value = {}
        THEN fallback
        ELSE CHOOSE n \in value : TRUE

-----------------------------------------------------------------------------
(* The configurations                                                      *)

StringKeys ==
  {"server_ip", "telemetry_file", "client_name", "bind_ip", "log_file", "stats_file"}
IntKeys == {"server_port", "send_interval_ms", "listen_port", "max_clients"}

\* The values a configuration has without a file.  A text that nothing looks
\* into is one token.
ClientDefaults ==
  [server_ip |-> <<"127.0.0.1">>, server_port |-> 54000,
   telemetry_file |-> <<"data/sample/Telemetry_Data_Sample.txt">>,
   client_name |-> <<"Client-01">>, send_interval_ms |-> 250]

ServerDefaults ==
  [bind_ip |-> <<"0.0.0.0">>, listen_port |-> 54000, max_clients |-> 32,
   log_file |-> <<"output/logs/server.log">>,
   stats_file |-> <<"output/stats/flight_stats.csv">>]

\* Every field from its key, or its default; a file that cannot be opened is
\* an empty text, where no key is found.
Load(json, defaults) ==
  [key \in DOMAIN defaults |->
     IF key \in StringKeys THEN ReadJsonString(json, key, defaults[key])
                           ELSE ReadJsonInt(json, key, defaults[key])]

LoadClientConfig(json) == Load(json, ClientDefaults)
LoadServerConfig(json) == Load(json, ServerDefaults)

-----------------------------------------------------------------------------
(* What a file says, and that it is read                                   *)

TextValue(value) == value.kind = "text"

\* The text of a member of the object: a key with a text or with a number.
Member(m) ==
  <<Space, Quote, m.key, Quote, Colon, Space>>
    \o (IF TextValue(m.value) THEN <<Quote>> \o m.value.text \o <<Quote>> ELSE m.value.text)

\* The text of the first members, one to a line.
Body(members) ==
  LET Separator(i) == IF i = 1 THEN <<>> ELSE <<Comma, Newline>>
      body[i \in 0..Len(members)] ==
        IF i = 0 THEN <<OpenBrace>> ELSE body[i - 1] \o (Separator(i) \o Member(members[i]))
  IN  body

\* The text of a file with these members.
Json(members) == Body(members)[Len(members)] \o <<Newline, CloseBrace>>

\* What a reader of the file takes it to say: the first member with the key
\* counts, and a number key with a text keeps its default.
Said(members, key, default) ==
  LET named == {i \in DOMAIN members : members[i].key = key}
      value == members[Min(named)].value
  IN  IF named = {} THEN default
      ELSE IF key \in StringKeys THEN value.text
      ELSE IF TextValue(value) THEN default
      ELSE CHOOSE n \in Stoi(value.text) : TRUE

\* The files this holds for: no number under a key for a text, after which the
\* next quoted text would be taken (Utils.cpp:28), and no text that is itself
\* one of the keys.
Expected(members) ==
  \A i \in DOMAIN members :
    /\ members[i].key \in StringKeys => TextValue(members[i].value)
    /\ \A n \in DOMAIN members[i].value.text :
         members[i].value.text[n] \notin StringKeys \cup IntKeys

\* Every key is read from the file whatever order and company it is in, with
\* colons, commas and braces in the texts around it, and what is missing or no
\* number keeps its default.
ConfigReadsBack(members) ==
  Expected(members) =>
    /\ \A key \in DOMAIN ServerDefaults :
         LoadServerConfig(Json(members))[key] = Said(members, key, ServerDefaults[key])
    /\ \A key \in DOMAIN ClientDefaults :
         LoadClientConfig(Json(members))[key] = Said(members, key, ClientDefaults[key])
=============================================================================
