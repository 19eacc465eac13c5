---------------------------- MODULE MC_Handshake ----------------------------
EXTENDS Handshake, ConfigParser, HexCodec

\* Two different 32-byte keys, written as 64 hex digits or with 0x.
K1  == [form |-> "hex",   val |-> <<"key", "1">>]
K1x == [form |-> "0xhex", val |-> <<"key", "1">>]
K2  == [form |-> "hex",   val |-> <<"key", "2">>]
\* A key string that is not 64 hex digits, and a password typed as a key.
Short == [form |-> "text", val |-> <<"text", "abc123">>]
PwKey == [form |-> "text", val |-> <<"text", "pw">>]

FromConfig(k) == [src |-> "config", key |-> k, pw |-> "", stated |-> k]
FromPassword(p) == [src |-> "password", key |-> None, pw |-> p, stated |-> None]

\* Key texts of two bytes spelt with a digit, an upper-case hex letter,
\* a letter that is no hex digit and the blank stoi and stoul skip; keys
\* made of bytes at the one-digit / two-digit boundaries.
MC_KeyChars == {"0", "F", "g", " "}
MC_ByteSamples == {0, 9, 15, 16, 160, 255}

MC_Levels == {"HIGH", "FAST", "AES", "GCM"}

\* The key string a value read from a file spells: the word K1 stands for
\* the 64 hex digits of key 1.  An empty value sends main to the prompt,
\* where nothing typed is the file's key; like any other text it is no
\* key at all.
KeyOf(v) ==
  CASE v = <<"K1">> -> K1 [] v = <<"0x", "K1">> -> K1x [] v = <<"K2">> -> K2
    [] v = <<"abc123">> -> Short
    [] OTHER -> [form |-> "text", val |-> <<"text", "other">>]

\* A configuration file and the key its author wrote into it.
File(lines, k) == [lines |-> lines, stated |-> k]
Client(f) == [FromConfig(KeyOf(ClientConfig(f.lines).secret_key))
                EXCEPT !.stated = f.stated]
Server(f) == [FromConfig(KeyOf(ServerConfig(f.lines).secret_key))
                EXCEPT !.stated = f.stated]

Sec == <<"[", "security", "]">>
\* Client files: plain; single-quoted with 0x under "[ security ]" after a
\* comment and another section; CRLF line ends with a double-quoted key;
\* another key; a key that is not 64 hex digits.
ClientFiles ==
  { File(<<Sec, <<"secret_key", " ", "=", " ", "K1">>>>, K1),
    File(<<<<";", " ", "client">>, <<"[", "connection", "]">>,
           <<"timeout", "=", "30">>, <<"[", " ", "security", " ", "]">>,
           <<"\t", "secret_key", "=", "'", "0x", "K1", "'">>>>, K1x),
    File(<<<<"[", "security", "]", "\r">>,
           <<"secret_key", " ", "=", " ", "\"", "K1", "\"", "\r">>,
           <<"\r">>>>, K1),
    File(<<Sec, <<"secret_key", "=", "K2">>>>, K2),
    File(<<Sec, <<"secret_key", "=", "abc123">>>>, Short) }

\* Server files: a key as above, and require_auth left out or written in
\* any case accepted as true.
ServerKeyLines ==
  { <<<<"secret_key", " ", "=", " ", "K1">>>>,
    <<<<"#", " ", "secret_key", "=", "K2">>,
      <<"secret_key", " ", "=", " ", "\"", "0x", "K1", "\"", "\r">>>> }
AuthLines ==
  { <<>>, <<<<"require_auth", " ", "=", " ", "Y", "e", "s">>>>,
    <<<<"require_auth", "=", "1", "\r">>>>,
    <<<<"require_auth", " ", "=", " ", "T", "R", "U", "E">>>> }
ServerFiles ==
  { File(<<<<"[", "network", "]">>, <<"listen_port", "=", "1245">>, Sec>>
           \o k \o a, K1) : k \in ServerKeyLines, a \in AuthLines }

MC_ClientSecrets == {Client(f) : f \in ClientFiles}
MC_ConfigKeys == {FromConfig(K1), FromConfig(K1x)}
\* A server started from a configured key, or from a malformed key typed
\* at its prompt.
MC_ServerSecrets == {Server(f) : f \in ServerFiles} \cup {[src |-> "prompt", key |-> Short, pw |-> "", stated |-> Short]}
MC_RequireAuth == {ServerConfig(f.lines).require_auth : f \in ServerFiles}

\* The interactive password on both sides.
MC_PasswordClient == {FromPassword("pw")}
MC_PasswordServer == {[src |-> "prompt", key |-> PwKey, pw |-> "", stated |-> PwKey]}
\* A configured key with authentication switched off.
MC_NoAuth ==
  {ServerConfig(<<Sec, <<"require_auth", " ", "=", " ", "o", "f", "f">>>>)
     .require_auth}

\* A connection together with the writing of the key text into the
\* configurations, which happens independently of it.
\* (Spec's fairness, for the connection's steps only.)
ConnectionStep == Next /\ UNCHANGED key_vars
ComposedSpec ==
  /\ conf_key = "" /\ derived = <<>> /\ Init
  /\ [][ConnectionStep \/ (KeyNext /\ UNCHANGED vars)]_<<vars, key_vars>>
  /\ WF_<<vars, key_vars>>(ConnectionStep)

=============================================================================
