------------------------------ MODULE HexCodec ------------------------------
(***************************************************************************)
(* The text form of a secret key and its two parsers.                      *)
(*                                                                         *)
(*  - common::to_hex_string writes each byte as two lower-case hex digits  *)
(*    (the keygen tool and the client's password path print                *)
(*    "0x" + to_hex_string(derive_key(...)));                              *)
(*  - common::from_hex_string reads the text two characters at a time     *)
(*    with std::stoi(pair, nullptr, 16); Server::load_config and           *)
(*    Client::Client build the legacy ChaCha20-Poly1305 key with it;       *)
(*  - the crypto engines' constructors (create_crypto_engine) read the     *)
(*    same text pair by pair with std::stoul(pair, nullptr, 16).           *)
(*                                                                         *)
(* Text is a TLA+ string, bytes a sequence of 0..255.  A parse yields      *)
(* [ok |-> TRUE, bytes |-> b] or Throws, the std::invalid_argument or      *)
(* std::runtime_error that ends the caller.  The key is KeySize bytes     *)
(* (ChaCha20Poly1305::Key and XorCipher::Key are 32), so the text is      *)
(* 2 * KeySize characters after an optional 0x.                            *)
(***************************************************************************)
EXTENDS Integers, Sequences
LOCAL Cl == INSTANCE ClientMain

CONSTANTS
  KeySize,      \* bytes in a key (32 in the code)
  KeyChars,     \* characters the key texts of the check are spelt with
  ByteSamples   \* byte values the keys of the check are made of

Ok(b) == [ok |-> TRUE, bytes |-> b]
Throws == [ok |-> FALSE, bytes |-> <<>>]

LowerHex == "0123456789abcdef"
UpperHex == "0123456789ABCDEF"
\* What isspace accepts, as far as TLA+ strings can spell it.
Spaces == {" ", "\t", "\n", "\r", "\f"}

IsHexDigit(c) == Cl!FindFirstOf(LowerHex \o UpperHex, {c}) > 0
HexDigitValue(c) ==
  (Cl!FindFirstOf(LowerHex \o UpperHex, {c}) - 1) % 16

RECURSIVE HexValue(_)
HexValue(s) ==
  IF s = "" THEN 0
  ELSE 16 * HexValue(SubSeq(s, 1, Len(s) - 1)) + HexDigitValue(Cl!Char(s, Len(s)))

\* strtol / strtoul in base 16, as std::stoi and std::stoul call them:
\* leading white space, an optional sign, an optional 0x or 0X when a hex
\* digit follows it, then the longest run of hex digits; anything after
\* it is ignored, and no digit at all throws std::invalid_argument.  The
\* texts read here are at most two characters, so neither overflows; a
\* negative stoul wraps modulo 2^64, which leaves the same low byte as
\* the int of stoi, so the value is returned signed for both.
StrToL16(s) ==
  CHOOSE r \in
    { LET u  == IF Cl!Char(t, 1) \in {"+", "-"} THEN Cl!From(t, 2) ELSE t
          v  == IF Cl!Char(u, 1) = "0" /\ Cl!Char(u, 2) \in {"x", "X"}
                   /\ IsHexDigit(Cl!Char(u, 3))
                THEN Cl!From(u, 3) ELSE u
          D  == {i \in 1..Len(v) : \A j \in 1..i : IsHexDigit(Cl!Char(v, j))}
          n  == IF D = {} THEN 0 ELSE CHOOSE i \in D : \A j \in D : j <= i
      IN  IF n = 0 THEN [ok |-> FALSE, val |-> 0]
          ELSE [ok |-> TRUE,
                val |-> (IF Cl!Char(t, 1) = "-" THEN -1 ELSE 1) * HexValue(SubSeq(v, 1, n))]
    : t \in {IF Cl!FindFirstNotOf(s, Spaces) = 0 THEN ""
             ELSE Cl!From(s, Cl!FindFirstNotOf(s, Spaces))} } : TRUE

\* static_cast<uint8_t> of the parsed value.
Byte(v) == v % 256

-----------------------------------------------------------------------------
(* to_hex_string                                                           *)

\* Mutant: the std::setw(2) is dropped, so a byte below 16 is one digit.
HexByte_without_width(b) ==
  IF b < 16 THEN Cl!Char(LowerHex, b + 1)
  ELSE Cl!Char(LowerHex, b \div 16 + 1) \o Cl!Char(LowerHex, (b % 16) + 1)

\* oss << std::setw(2) << static_cast<int>(byte), with std::hex and
\* std::setfill('0') in force.
HexByte(b) == Cl!Char(LowerHex, b \div 16 + 1) \o Cl!Char(LowerHex, (b % 16) + 1)

RECURSIVE to_hex_string(_)
to_hex_string(data) ==
  IF data = <<>> THEN "" ELSE HexByte(Head(data)) \o to_hex_string(Tail(data))

-----------------------------------------------------------------------------
(* from_hex_string and the two key parsers                                 *)

\* std::stoi(byte_str, nullptr, 16).
ParsePair(pair) == StrToL16(pair)

\* for (i = 0; i < length; i += 2) data.push_back(uint8_t(stoi(substr(i, 2))))
RECURSIVE from_hex_string(_)
from_hex_string(s) ==
  IF s = "" THEN Ok(<<>>)
  ELSE LET p == ParsePair(SubSeq(s, 1, IF Len(s) >= 2 THEN 2 ELSE 1))
           r == from_hex_string(Cl!From(s, 3))
       IN  IF p.ok /\ r.ok THEN Ok(<<Byte(p.val)>> \o r.bytes) ELSE Throws

\* hex_key.length() > 2 && hex_key.substr(0, 2) == "0x": the prefix goes.
StripPrefix(s) == IF Len(s) > 2 /\ SubSeq(s, 1, 2) = "0x" THEN Cl!From(s, 3) ELSE s

\* Server::load_config (and Client::Client): strip 0x, demand 64
\* characters, from_hex_string, copy the first min(size, 32) bytes.
load_config_key(secret) ==
  LET h == StripPrefix(secret) IN
  IF Len(h) # 2 * KeySize THEN Throws
  ELSE LET r == from_hex_string(h) IN
       IF r.ok THEN Ok(SubSeq(r.bytes, 1, KeySize)) ELSE Throws

\* The engines' constructors: strip 0x, demand 64 characters, then
\* key[i] = uint8_t(stoul(hex_key.substr(i * 2, 2), nullptr, 16)).
engine_key(password) ==
  LET h == StripPrefix(password)
      P == [i \in 1..KeySize |-> StrToL16(SubSeq(h, 2 * i - 1, 2 * i))]
  IN  IF Len(h) # 2 * KeySize \/ \E i \in 1..KeySize : ~P[i].ok THEN Throws
      ELSE Ok([i \in 1..KeySize |-> Byte(P[i].val)])

-----------------------------------------------------------------------------
(* The key generator                                                       *)

\* "0x" + to_hex_string(key): what keygen prints and what the client's
\* main stores as config.secret_key after deriving a key from a password.
PrintedKey(key) == "0x" \o to_hex_string(key)

\* The keygen tool's main: without -genkey it prints its usage and exits
\* 1; an empty password is refused with 1; else it prints PrintedKey of
\* derive_key(password, fixed_salt), the opaque PBKDF2 result given here
\* as key, and exits 0.
keygen_main(argv, password, key) ==
  IF Len(argv) < 1 \/ argv[1] # "-genkey" THEN [exit |-> 1, printed |-> ""]
  ELSE IF password = "" THEN [exit |-> 1, printed |-> ""]
  ELSE [exit |-> 0, printed |-> PrintedKey(key)]

-----------------------------------------------------------------------------
(* The secret_key of the configuration files                               *)

Keys == [1..KeySize -> ByteSamples]
RECURSIVE Texts(_)
Texts(n) == IF n = 0 THEN {""} ELSE {c \o t : c \in KeyChars, t \in Texts(n - 1)}
KeyTexts == UNION {{t, "0x" \o t} : t \in Texts(2 * KeySize)}

\* conf_key is the secret_key text written into client.conf and
\* server.conf ("" before one is written); derived is the key keygen
\* derived for it, <<>> when the text was written by hand.
VARIABLES conf_key, derived
key_vars == <<conf_key, derived>>

\* Initially no key text is written: conf_key = "" /\ derived = <<>>.

\* The operator runs keygen with a password and pastes what it prints
\* (once: the texts are checked as written, not as edited later).
Keygen(argv, pw, k) ==
  /\ conf_key = ""
  /\ keygen_main(argv, pw, k).exit = 0
  /\ conf_key' = keygen_main(argv, pw, k).printed
  /\ derived' = k

\* The operator writes a key text by hand.
WriteKey(t) == conf_key = "" /\ conf_key' = t /\ derived' = <<>>

KeyNext ==
  \/ \E k \in Keys, argv \in {<<>>, <<"-genkey">>, <<"-h">>}, pw \in {"", "pw"} :
       Keygen(argv, pw, k)
  \/ \E t \in KeyTexts : WriteKey(t)

\* The key keygen printed, once in the configuration, reads back as the
\* key it derived through both the engine constructors and
\* load_config's from_hex_string.
PrintedKeyReadsBack ==
  derived # <<>> =>
    /\ engine_key(conf_key) = Ok(derived)
    /\ load_config_key(conf_key) = Ok(derived)

\* What spec.md section 7 asks: a configured key text that is not 64 hex
\* digits (after 0x) is a configuration error.  The code does not hold
\* it: stoi and stoul skip blanks, take a sign and ignore trailing junk.
MalformedKeyRefused ==
  engine_key(conf_key).ok =>
    \A i \in 1..Len(StripPrefix(conf_key)) : IsHexDigit(Cl!Char(StripPrefix(conf_key), i))

=============================================================================
