----------------------------- MODULE Handshake -----------------------------
(***************************************************************************)
(* Key provisioning, the handshake and the choice of cipher for each frame *)
(* of one NetCopy connection, up to the first exchange after the           *)
(* handshake (a FileRequest and its FileResponse).                         *)
(*                                                                         *)
(* Each side holds an optional crypto engine and an optional legacy        *)
(* ChaCha20-Poly1305 object (crypto_).  A frame is sealed with the engine  *)
(* if there is one, else with crypto_, else it is sent in clear.  A        *)
(* cipher is abstracted to <<suite, key bytes>>: a frame opens only under  *)
(* the cipher that sealed it (AEAD tag, or garbage that the header check  *)
(* of Message::deserialize rejects), and a clear frame opens only where   *)
(* nothing is decrypted.  The legacy ChaCha object produces the same      *)
(* envelope as the HIGH engine, so it is <<"HIGH", bytes>>.                *)
(*                                                                         *)
(* A key string is a record: form "hex" (64 hex digits), "0xhex" (the     *)
(* same with a 0x prefix) or "text" (anything else, e.g. a password);     *)
(* val stands for the 32 key bytes of a hex form, <<"text", t>> else.    *)
(***************************************************************************)
EXTENDS Sequences, TLC

CONSTANTS
  Levels,         \* the security levels a client may ask for
  ClientSecrets,  \* client configuration: [src: {"config"}, key: KeyString]
                  \*   or [src: {"password"}, pw: text typed at the prompt]
  ServerSecrets,  \* server configuration: [src: {"config"}, key: KeyString]
                  \*   or [src: {"prompt"}, key: KeyString typed]
  RequireAuth     \* the values of ServerConfig::require_auth to explore

\* Opaque values are tuples of strings so that TLC can compare any two.
None == <<>>
Clear == <<"clear">>
HandshakeTypes == {"HandshakeRequest", "HandshakeResponse"}

VARIABLES
  cl,     \* client: pc, secret_key, level, crypto_engine_, crypto_
  srv,    \* handler: pc, secret_key, require_auth, crypto_engine_,
          \* crypto_, handshake_completed_
  c2s,    \* frames in flight from client to server
  s2c     \* frames in flight from server to client

vars == <<cl, srv, c2s, s2c>>

-----------------------------------------------------------------------------
(* Keys and ciphers.                                                       *)

\* The key bytes PBKDF2 derives from a password and the fixed salt.
Pbkdf2(pw) == <<"pbkdf2", pw>>

\* client main: a password typed at the prompt becomes
\* "0x" + to_hex_string(derive_key(password, fixed_salt)).
ClientKeyFromPassword(pw) == [form |-> "0xhex", val |-> Pbkdf2(pw)]

\* Mutant: the 0x prefix is not stripped, so "0x..." has 66 characters.
ParseKey_keeps_prefix(k) == IF k.form = "hex" THEN k.val ELSE None

\* The engine constructors and Client::connect / Server::load_config:
\* strip a leading "0x", require 64 hex digits, read 32 bytes.
ParseKey(k) == IF k.form \in {"hex", "0xhex"} THEN k.val ELSE None

\* create_crypto_engine(level, key): every engine parses the key as above
\* and throws when it is not 64 hex digits.
create_crypto_engine(level, k) ==
  IF ParseKey(k) = None THEN None ELSE <<level, ParseKey(k)>>

LegacyCipher(k) == <<"HIGH", ParseKey(k)>>

\* The cipher send_message / receive_message use: the engine, else the
\* legacy object, else none.
Cipher(side) ==
  IF side.engine # None THEN side.engine
  ELSE IF side.legacy # None THEN side.legacy ELSE None

\* Mutant: FileRequest is taken for a handshake message and sent in clear.
ClientSealsType_skips_request(t) ==
  t \notin HandshakeTypes \cup {"FileRequest"}

\* Client::send_message: handshake messages are never encrypted.
ClientSealsType(t) == t \notin HandshakeTypes

\* A frame as it travels: the message kind and how it is sealed; the
\* handshake response also carries authentication_required and the level.
Seal(type, cipher) == [type |-> type, enc |-> IF cipher = None THEN Clear
                                              ELSE cipher,
                       auth |-> FALSE, level |-> "HIGH"]

\* Decrypting a frame with the given cipher (None: no decryption).
Opens(frame, cipher) ==
  frame.enc = IF cipher = None THEN Clear ELSE cipher

-----------------------------------------------------------------------------
(* The client: main, connect, perform_handshake, the first request.       *)

\* Client::connect: the socket connects (refused when the server is not
\* running); with a secret key, build the legacy ChaCha object and
\* an engine for the requested level (either throws on a bad key, and the
\* client exits); then perform_handshake sends its request in clear.
ClientConnect ==
  /\ cl.pc = "start"
  /\ IF \/ srv.pc = "down"
        \/ ParseKey(cl.key) = None
        \/ create_crypto_engine(cl.level, cl.key) = None
     THEN /\ cl' = [cl EXCEPT !.pc = "failed"]
          /\ UNCHANGED c2s
     ELSE /\ cl' = [cl EXCEPT !.pc = "hello",
                              !.legacy = LegacyCipher(cl.key),
                              !.engine = create_crypto_engine(cl.level, cl.key)]
          /\ c2s' = Append(c2s, [Seal("HandshakeRequest", None)
                                   EXCEPT !.level = cl.level])
  /\ UNCHANGED <<srv, s2c>>

\* Client::receive_message decrypts with whatever cipher it holds.  Then,
\* if the server requires authentication, a new engine is built for the
\* accepted level from the configured key (main always configures one, so
\* the password prompt of perform_handshake is not reached).  The first
\* FileRequest follows.
ClientRecvHello ==
  /\ cl.pc = "hello"
  /\ s2c # <<>>
  /\ s2c' = Tail(s2c)
  /\ LET f == Head(s2c)
     IN  IF ~Opens(f, Cipher(cl)) \/ f.type # "HandshakeResponse"
         THEN /\ cl' = [cl EXCEPT !.pc = "failed"]
              /\ UNCHANGED c2s
         ELSE LET eng == IF f.auth THEN create_crypto_engine(f.level, cl.key)
                         ELSE cl.engine
                  new == [cl EXCEPT !.engine = eng]
              IN  /\ cl' = [new EXCEPT !.pc = "request"]
                  /\ c2s' = Append(c2s,
                        Seal("FileRequest", IF ClientSealsType("FileRequest")
                                            THEN Cipher(new) ELSE None))
  /\ UNCHANGED srv

\* transfer_single_file: the FileResponse must decrypt and parse.
ClientRecvResponse ==
  /\ cl.pc = "request"
  /\ s2c # <<>>
  /\ s2c' = Tail(s2c)
  /\ cl' = [cl EXCEPT !.pc = IF Opens(Head(s2c), Cipher(cl))
                                /\ Head(s2c).type = "FileResponse"
                             THEN "established" ELSE "failed"]
  /\ UNCHANGED <<srv, c2s>>

\* The server closed the connection: receive_message throws.
ClientSeesClose ==
  /\ cl.pc \in {"hello", "request"}
  /\ s2c = <<>>
  /\ srv.pc \in {"closed", "down"}
  /\ cl' = [cl EXCEPT !.pc = "failed"]
  /\ UNCHANGED <<srv, c2s, s2c>>

-----------------------------------------------------------------------------
(* The server: ConnectionHandler::perform_handshake and the first request. *)

\* The handshake request is read without decryption (handshake not yet
\* completed).  With require_auth and a secret key an engine is built for
\* the client's level (a key that is not 64 hex digits throws and ends the
\* handler).  The response is sealed with whatever cipher the handler now
\* holds.
ServerRecvHello ==
  /\ srv.pc = "listening"
  /\ c2s # <<>>
  /\ c2s' = Tail(c2s)
  /\ LET f   == Head(c2s)
         eng == IF srv.requireAuth THEN create_crypto_engine(f.level, srv.key)
                ELSE None
         new == [srv EXCEPT !.engine = eng]
     IN  IF f.type # "HandshakeRequest" \/ f.enc # Clear
            \/ (srv.requireAuth /\ eng = None)
         THEN /\ srv' = [srv EXCEPT !.pc = "closed"]
              /\ UNCHANGED s2c
         ELSE /\ srv' = [new EXCEPT !.pc = "serving", !.hsDone = TRUE]
              /\ s2c' = Append(s2c,
                   [Seal("HandshakeResponse", Cipher(new))
                      EXCEPT !.auth = srv.requireAuth, !.level = f.level])
  /\ UNCHANGED cl

\* ConnectionHandler::receive_message decrypts once the handshake is done;
\* a frame that does not open ends the handler.  Otherwise a FileResponse
\* is sent, sealed like every server frame.
ServerRecvRequest ==
  /\ srv.pc = "serving"
  /\ c2s # <<>>
  /\ c2s' = Tail(c2s)
  /\ IF Opens(Head(c2s), IF srv.hsDone THEN Cipher(srv) ELSE None)
        /\ Head(c2s).type = "FileRequest"
     THEN /\ srv' = [srv EXCEPT !.pc = "replied"]
          /\ s2c' = Append(s2c, Seal("FileResponse", Cipher(srv)))
     ELSE /\ srv' = [srv EXCEPT !.pc = "closed"]
          /\ UNCHANGED s2c
  /\ UNCHANGED cl

\* The client closed the connection: receive_message throws.
ServerSeesClose ==
  /\ srv.pc \in {"listening", "serving"}
  /\ c2s = <<>>
  /\ cl.pc = "failed"
  /\ srv' = [srv EXCEPT !.pc = "closed"]
  /\ UNCHANGED <<cl, c2s, s2c>>

-----------------------------------------------------------------------------

\* Server side of start-up: a key from the configuration file builds the
\* legacy ChaCha object in load_config (a malformed one stops the server);
\* a key typed at the prompt is stored as typed and builds nothing.
ServerInit(s, auth) ==
  LET bad == s.src = "config" /\ ParseKey(s.key) = None
  IN  [pc |-> IF bad THEN "down" ELSE "listening",
       key |-> s.key, requireAuth |-> auth, engine |-> None,
       legacy |-> IF s.src = "config" /\ ~bad THEN LegacyCipher(s.key)
                  ELSE None,
       hsDone |-> FALSE,
       stated |-> IF s.src = "config" THEN s.stated ELSE s.key]

\* Client side of start-up: the configured key, or one derived from the
\* password typed at the prompt.
ClientInit(c, level) ==
  [pc |-> "start", level |-> level, engine |-> None, legacy |-> None,
   key |-> IF c.src = "config" THEN c.key ELSE ClientKeyFromPassword(c.pw),
   stated |-> IF c.src = "config" THEN c.stated
              ELSE ClientKeyFromPassword(c.pw)]

Init ==
  /\ \E c \in ClientSecrets, level \in Levels : cl = ClientInit(c, level)
  /\ \E s \in ServerSecrets, auth \in RequireAuth : srv = ServerInit(s, auth)
  /\ c2s = <<>>
  /\ s2c = <<>>

Next ==
  \/ ClientConnect \/ ClientRecvHello \/ ClientRecvResponse \/ ClientSeesClose
  \/ ServerRecvHello \/ ServerRecvRequest \/ ServerSeesClose

\* Both sides block on their sockets and run whenever a frame is there.
Spec == Init /\ [][Next]_vars /\ WF_vars(Next)

-----------------------------------------------------------------------------
(* Properties.                                                             *)

Ciphers == {None} \cup {<<l, b>> : l \in Levels \cup {"HIGH"},
                                   b \in {ParseKey(k) : k \in
                                     {c.key : c \in {x \in ClientSecrets :
                                                       x.src = "config"}}
                                     \cup {s.key : s \in ServerSecrets}
                                     \cup {ClientKeyFromPassword(c.pw) :
                                           c \in {x \in ClientSecrets :
                                                    x.src = "password"}}}}

TypeOK ==
  /\ cl.pc \in {"start", "hello", "request", "established", "failed"}
  /\ srv.pc \in {"down", "listening", "serving", "replied", "closed"}
  /\ cl.engine \in Ciphers /\ cl.legacy \in Ciphers
  /\ srv.engine \in Ciphers /\ srv.legacy \in Ciphers
  /\ srv.hsDone \in BOOLEAN
  /\ \A i \in DOMAIN c2s : c2s[i].enc \in Ciphers \cup {Clear}
  /\ \A i \in DOMAIN s2c : s2c[i].enc \in Ciphers \cup {Clear}

\* The secret both sides were given (spec 4.3): the same 64 hex digits,
\* each with or without 0x, or the same password typed at both prompts.
SameSecret ==
  \/ /\ {cl.stated.form, srv.stated.form} \subseteq {"hex", "0xhex"}
     /\ cl.stated.val = srv.stated.val
  \/ \E c \in ClientSecrets :
       /\ c.src = "password"
       /\ cl.key = ClientKeyFromPassword(c.pw)
       /\ srv.key = [form |-> "text", val |-> <<"text", c.pw>>]

Frames == {c2s[i] : i \in DOMAIN c2s} \cup {s2c[i] : i \in DOMAIN s2c}

\* Spec 3: every frame other than the two handshake messages is encrypted,
\* whichever side sends it and whatever key material it was given.
NoPlaintextAfterHandshake ==
  \A f \in Frames : f.type \notin HandshakeTypes => f.enc # Clear

\* Spec 4.3 and 4.5: a client and a server given the same secret (a key,
\* with or without 0x, or the same password at both prompts) complete the
\* handshake and exchange a request, whatever suite the client asks for.
SharedSecretEstablishes == SameSecret => <>(cl.pc = "established")

=============================================================================
