---------------------------- MODULE ConfigParser ----------------------------
(***************************************************************************)
(* config::ConfigParser, the INI reader behind ServerConfig and           *)
(* ClientConfig::load_from_file, as operators over a file's text.         *)
(*                                                                         *)
(* A file is the sequence of its lines as std::getline splits it at '\n'  *)
(* (so a line of a CRLF file ends in "\r").  A line is a sequence of       *)
(* tokens: every character the parser looks at (blanks, '#', ';', '[',     *)
(* ']', '=', quotes) and every letter of a boolean's value is a token of   *)
(* its own; any other run of characters (a name, the 64 hex digits of a    *)
(* key) is one opaque word token.  Whatever the parser keeps, it keeps as  *)
(* a sequence of tokens.                                                   *)
(***************************************************************************)
EXTENDS Integers, Sequences
LOCAL INSTANCE SequencesExt

\* Mutant: trim leaves the '\r' of a CRLF line end in place.
Blank_without_cr == {" ", "\t", "\n"}

\* trim's character set " \t\r\n".
Blank == {" ", "\t", "\r", "\n"}

\* ConfigParser::trim: the text between the first and the last character
\* that is not blank; "" when there is none.
trim(s) ==
  LET first == SelectInSeq(s, LAMBDA t : t \notin Blank)
      last  == SelectLastInSeq(s, LAMBDA t : t \notin Blank)
  IN  IF first = 0 THEN <<>> ELSE SubSeq(s, first, last)

\* load_from_string: a value of at least two characters that starts and
\* ends with the same quote character loses both.
Unquote(v) ==
  IF /\ Len(v) >= 2
     /\ \/ v[1] = "\"" /\ v[Len(v)] = "\""
        \/ v[1] = "'" /\ v[Len(v)] = "'"
  THEN SubSeq(v, 2, Len(v) - 1)
  ELSE v

\* data_[section][key] = value, or, when the key already holds a
\* non-empty value, value appended to it after a comma.
Store(data, at, v) ==
  IF at \in DOMAIN data /\ data[at] # <<>>
  THEN [data EXCEPT ![at] = @ \o <<",">> \o v]
  ELSE (at :> v) @@ data

\* One iteration of load_from_string's loop over the lines: blank and
\* comment lines are skipped, "[name]" opens a section, a line with '='
\* stores a key, and any other line is ignored.
ParseLine(acc, raw) ==
  LET line == trim(raw)
      eq   == SelectInSeq(line, LAMBDA t : t = "=")
  IN  IF line = <<>> \/ line[1] \in {"#", ";"} THEN acc
      ELSE IF line[1] = "[" /\ line[Len(line)] = "]"
      THEN [acc EXCEPT !.section = trim(SubSeq(line, 2, Len(line) - 1))]
      ELSE IF eq = 0 THEN acc
      ELSE [acc EXCEPT !.data =
              Store(@, <<acc.section, trim(SubSeq(line, 1, eq - 1))>>,
                    Unquote(trim(SubSeq(line, eq + 1, Len(line)))))]

\* ConfigParser::load_from_string (load_from_file reads the whole file
\* and calls it): data_ as a function from <<section, key>> to the value.
\* The current section starts as "".
load_from_string(lines) ==
  FoldLeft(ParseLine, [section |-> <<>>, data |-> <<>>], lines).data

\* ConfigParser::get_string.
get_string(data, section, key, default) ==
  IF <<section, key>> \in DOMAIN data THEN data[<<section, key>>]
  ELSE default

\* ::tolower on the letters that boolean values are written with here.
LowerCase ==
  ("T" :> "t") @@ ("R" :> "r") @@ ("U" :> "u") @@ ("E" :> "e") @@
  ("Y" :> "y") @@ ("S" :> "s") @@ ("O" :> "o") @@ ("N" :> "n")
tolower(c) == IF c \in DOMAIN LowerCase THEN LowerCase[c] ELSE c

\* Mutant: the value is compared without being lower-cased.
get_bool_case_sensitive(data, section, key, default) ==
  LET v == get_string(data, section, key, <<>>)
  IN  IF v = <<>> THEN default
      ELSE v \in {<<"t", "r", "u", "e">>, <<"y", "e", "s">>, <<"1">>, <<"o", "n">>}

\* ConfigParser::get_bool: an empty or missing value is the default;
\* otherwise the lower-cased value must be true, yes, 1 or on.
get_bool(data, section, key, default) ==
  LET v == get_string(data, section, key, <<>>)
  IN  IF v = <<>> THEN default
      ELSE [i \in DOMAIN v |-> tolower(v[i])] \in
             {<<"t", "r", "u", "e">>, <<"y", "e", "s">>, <<"1">>, <<"o", "n">>}

\* The text a value's tokens spell.
Text(v) == FoldLeft(LAMBDA a, t : a \o t, "", v)

\* The character at i ("" past the end), the text from i on, the first n.
CharAt(s, i) == IF i \in 1..Len(s) THEN SubSeq(s, i, i) ELSE ""
After(s, i) == IF i > Len(s) THEN "" ELSE SubSeq(s, i, Len(s))
Upto(s, n) == IF n = 0 THEN "" ELSE SubSeq(s, 1, n)

DigitOf(c) == CHOOSE d \in 0..9 : SubSeq("0123456789", d + 1, d + 1) = c
RECURSIVE DecimalValue(_)
DecimalValue(s) ==
  IF s = "" THEN 0
  ELSE 10 * DecimalValue(Upto(s, Len(s) - 1)) + DigitOf(CharAt(s, Len(s)))

\* The length of the longest prefix of s whose characters are all in cs.
PrefixIn(s, cs) ==
  CHOOSE n \in 0..Len(s) : (\A j \in 1..n : CharAt(s, j) \in cs) /\ CharAt(s, n + 1) \notin cs

DecimalDigits == {"0", "1", "2", "3", "4", "5", "6", "7", "8", "9"}

\* std::stoi in base 10: leading white space, an optional sign, then the
\* longest run of digits, what follows ignored; no digit throws
\* invalid_argument, a value beyond int throws out_of_range.  A value of
\* ten significant digits is tested digit by digit, so that no
\* intermediate leaves the 32-bit range.
stoi(s) ==
  CHOOSE r \in
    { LET neg  == CharAt(t, 1) = "-"
          u    == IF CharAt(t, 1) \in {"+", "-"} THEN After(t, 2) ELSE t
          n    == PrefixIn(u, DecimalDigits)
          sig  == After(Upto(u, n), PrefixIn(Upto(u, n), {"0"}) + 1)
          top  == IF sig = "" THEN 0 ELSE DigitOf(CharAt(sig, 1))
          rest == DecimalValue(After(sig, 2))
          fits == \/ Len(sig) < 10
                  \/ Len(sig) = 10 /\ (top = 1 \/ (top = 2 /\ rest <= 147483647 + (IF neg THEN 1 ELSE 0)))
      IN  IF n = 0 \/ ~fits THEN [ok |-> FALSE, val |-> 0]
          ELSE IF Len(sig) < 10
          THEN [ok |-> TRUE, val |-> (IF neg THEN -1 ELSE 1) * DecimalValue(sig)]
          ELSE [ok |-> TRUE, val |-> IF neg THEN -(top * 1000000000) - rest
                                     ELSE top * 1000000000 + rest]
    : t \in {After(s, PrefixIn(s, {" ", "\t", "\n", "\r", "\f"}) + 1)} } : TRUE

\* ConfigParser::get_int: the default for an empty or missing value, or
\* when stoi throws.
get_int(data, section, key, default) ==
  LET v == get_string(data, section, key, <<>>)
  IN  IF v = <<>> \/ ~stoi(Text(v)).ok THEN default ELSE stoi(Text(v)).val

\* ConfigParser::split: the pieces between delimiters (std::getline with
\* the delimiter), each trimmed, the empty ones dropped.
split(s, delimiter) ==
  LET cut(pieces, t) ==
        IF t = delimiter THEN Append(pieces, <<>>)
        ELSE [pieces EXCEPT ![Len(pieces)] = Append(@, t)]
      trimmed == [i \in 1..Len(FoldLeft(cut, <<<<>>>>, s)) |->
                    trim(FoldLeft(cut, <<<<>>>>, s)[i])]
  IN  SelectSeq(trimmed, LAMBDA piece : piece # <<>>)

\* ConfigParser::get_string_list: the default for an empty or missing
\* value, else the value split at commas.
get_string_list(data, section, key, default) ==
  LET v == get_string(data, section, key, <<>>)
  IN  IF v = <<>> THEN default ELSE split(v, ",")

\* The section and key names the two load_from_file read here.
Security == <<"security">>

\* ServerConfig::get_default's allowed_paths, and the default of
\* load_from_file for them.
DefaultAllowedPaths == << <<"/", "var", "/", "lib", "/", "net_copy">> >>

Network == <<"network">>

\* ServerConfig::load_from_file: listen_address, listen_port (get_int
\* cast to uint16_t) and max_connections of [network], secret_key
\* (default "") and require_auth (default true) of [security], and
\* allowed_paths of [paths]; the other settings play no part here.
ServerConfig(lines) ==
  LET data == load_from_string(lines)
  IN  [listen_address |-> get_string(data, Network, <<"listen_address">>, <<"0.0.0.0">>),
       listen_port   |-> get_int(data, Network, <<"listen_port">>, 1245) % 65536,
       max_connections |-> get_int(data, Network, <<"max_connections">>, 10),
       secret_key    |-> get_string(data, Security, <<"secret_key">>, <<>>),
       require_auth  |-> get_bool(data, Security, <<"require_auth">>, TRUE),
       allowed_paths |-> get_string_list(data, <<"paths">>, <<"allowed_paths">>,
                                         DefaultAllowedPaths)]

\* ClientConfig::load_from_file: secret_key of [security] (default "").
ClientConfig(lines) ==
  [secret_key |-> get_string(load_from_string(lines), Security,
                             <<"secret_key">>, <<>>)]

=============================================================================
