-------------------------------- MODULE Wire --------------------------------
(***************************************************************************)
(* The wire codec (protocol/message.cpp) and the framing of one direction  *)
(* of a connection (send_message / receive_message over network::Socket). *)
(*                                                                         *)
(* A sender serializes each message, sends its u32 length with one         *)
(* Socket::send and the bytes in a loop of sends; TCP carries them as a    *)
(* byte stream whose pieces may arrive split; the receiver takes the       *)
(* length with one Socket::receive, the bytes in a loop of receives, and   *)
(* calls Message::deserialize.  The frames are those after the handshake  *)
(* of a FAST session (Handshake shows which frames are encrypted): each   *)
(* side owns a FastSecurityEngine whose XorCipher encrypt_message and     *)
(* decrypt_message run on the serialized bytes.                           *)
(***************************************************************************)
EXTENDS Naturals, Sequences, SequencesExt, Bitwise

CONSTANTS
  Messages,    \* messages the sender may send: [kind, fields]
  CodecCases,  \* messages whose encoding is checked on its own
  MaxMsgs,     \* bound: messages on the connection
  Segment,     \* a send may take, and a piece may carry, only this many bytes
  ShortCut,    \* what a send may take, or a piece carry, of a run of 4 bytes
  Garbage,     \* values an uninitialized byte of a local may hold
  FastKey,     \* the 32 key bytes both engines parsed from the shared hex key
  ChunkSize    \* XorCipher::CHUNK_SIZE, scaled down with the message sizes

VARIABLES
  snd,       \* sender: [pc, buf, pos]
  inflight,  \* pieces of sent bytes not yet at the receiver, in order
  arrived,   \* bytes in the receiver's socket buffer
  rcv,       \* receiver: [pc, length, data]
  sent,      \* history: messages handed to send_message
  received,  \* history: messages deserialize returned
  scipher,   \* the sender's XorCipher: its round_counter_
  rcipher,   \* the receiver's XorCipher: its round_counter_
  splitLength \* history: a send(&length, 4) or receive(&length, 4) moved
              \* fewer than 4 bytes

vars == <<snd, inflight, arrived, rcv, sent, received, scipher, rcipher,
          splitLength>>

-----------------------------------------------------------------------------
(* The codec.                                                              *)

HIGH == 0  \* crypto::SecurityLevel::HIGH, the default of an absent level

\* write_uint32 / write_uint64: n little-endian bytes, (value >> 8i) & 0xFF.
RECURSIVE LE(_, _)
LE(v, n) == IF n = 0 THEN <<>> ELSE <<v % 256>> \o LE(v \div 256, n - 1)

\* read_uint32 / read_uint64: buffer[offset] | buffer[offset + 1] << 8 | ...
RECURSIVE LEValue(_)
LEValue(bs) == IF bs = <<>> THEN 0 ELSE Head(bs) + 256 * LEValue(Tail(bs))

\* A value of 2^30 or more stands for every larger one: it exceeds any
\* buffer and any kind, which is all the code compares it with.
Huge == 2^30
FromLE(bs) ==
  IF Len(bs) < 4 \/ (bs[4] < 64 /\ \A i \in 5..Len(bs) : bs[i] = 0)
  THEN LEValue(bs) ELSE Huge

\* The payload fields of each MessageType, in serialize_payload order.
\* "u8opt" is a security level that deserialize_payload reads only when a
\* byte remains.  Kinds 7 and 8 have no class.
PayloadSchema ==
     1 :> <<"str", "bytes", "u8opt">>
  @@ 2 :> <<"str", "bytes", "bool", "u8opt">>
  @@ 3 :> <<"str", "str", "bool", "u64">>
  @@ 4 :> <<"bool", "str", "u64", "u64">>
  @@ 5 :> <<"u64", "bytes", "bool">>
  @@ 6 :> <<"u64", "bool", "str">>
  @@ 9 :> <<"u32", "str">>

\* write_uint32, write_uint64, write_string, write_bytes, a bool, a level.
Encode(t, v) ==
  CASE t = "u32"              -> LE(v, 4)
    [] t = "u64"              -> LE(v, 8)
    [] t \in {"str", "bytes"} -> LE(Len(v), 4) \o v
    [] t = "bool"             -> <<IF v THEN 1 ELSE 0>>
    [] t = "u8opt"            -> <<v>>

serialize_payload(m) ==
  LET s == PayloadSchema[m.kind]
  IN  FlattenSeq([i \in DOMAIN s |-> Encode(s[i], m.fields[i])])

\* Message::serialize: the 16-byte header (type, payload_length,
\* sequence_number, reserved), then the payload.  The sequence number is
\* the constructor's default 0: get_next_sequence_number is never called.
serialize(m) ==
  LET p == serialize_payload(m)
  IN  LE(m.kind, 4) \o LE(Len(p), 4) \o LE(0, 4) \o LE(0, 4) \o p

Fail == [ok |-> FALSE, val |-> 0, off |-> 0]
Got(v, off) == [ok |-> TRUE, val |-> v, off |-> off]

\* Mutant: a string or byte vector read from its length field on.
Read_from_length_field(t, buf, off) ==
  LET ln == FromLE(SubSeq(buf, off + 1, off + 4))
  IN  CASE t \in {"u32", "u64"} ->
             IF off + (IF t = "u64" THEN 8 ELSE 4) > Len(buf) THEN Fail
             ELSE Got(FromLE(SubSeq(buf, off + 1, off + (IF t = "u64" THEN 8 ELSE 4))),
                      off + (IF t = "u64" THEN 8 ELSE 4))
        [] t \in {"str", "bytes"} ->
             IF off + 4 > Len(buf) \/ off + 4 + ln > Len(buf) THEN Fail
             ELSE Got(SubSeq(buf, off + 1, off + ln), off + 4 + ln)
        [] t = "bool" ->
             IF off >= Len(buf) THEN Fail ELSE Got(buf[off + 1] # 0, off + 1)
        [] t = "u8opt" ->
             IF off < Len(buf) THEN Got(buf[off + 1], off + 1) ELSE Got(HIGH, off)

\* The readers at cursor off (bytes consumed so far); each throws
\* ProtocolException ("Buffer underflow") when the cursor would pass the end.
Read(t, buf, off) ==
  LET n  == IF t = "u64" THEN 8 ELSE 4
      ln == FromLE(SubSeq(buf, off + 1, off + 4))
  IN  CASE t \in {"u32", "u64"} ->
             IF off + n > Len(buf) THEN Fail
             ELSE Got(FromLE(SubSeq(buf, off + 1, off + n)), off + n)
        [] t \in {"str", "bytes"} ->
             IF off + 4 > Len(buf) \/ off + 4 + ln > Len(buf) THEN Fail
             ELSE Got(SubSeq(buf, off + 5, off + 4 + ln), off + 4 + ln)
        [] t = "bool" ->
             IF off >= Len(buf) THEN Fail ELSE Got(buf[off + 1] # 0, off + 1)
        [] t = "u8opt" ->
             IF off < Len(buf) THEN Got(buf[off + 1], off + 1) ELSE Got(HIGH, off)

\* deserialize_payload of a kind: the readers in schema order, stopping at
\* the first that throws.  Bytes after the last field are ignored.
RECURSIVE ReadFields(_, _, _, _)
ReadFields(schema, buf, off, vals) ==
  IF schema = <<>> THEN [ok |-> TRUE, vals |-> vals]
  ELSE CHOOSE res \in {IF r.ok THEN ReadFields(Tail(schema), buf, r.off,
                                               Append(vals, r.val))
                       ELSE [ok |-> FALSE] : r \in {Read(Head(schema), buf, off)}} :
         TRUE

deserialize_payload(kind, buf) == ReadFields(PayloadSchema[kind], buf, 0, <<>>)

\* Mutant: the completeness test off by one.
deserialize_needs_one_more(data) ==
  IF Len(data) < 16 THEN [ok |-> FALSE]
  ELSE CHOOSE res \in
         {IF p.ok THEN [ok |-> TRUE, kind |-> kind, seq |-> FromLE(SubSeq(data, 9, 12)),
                      fields |-> p.vals]
          ELSE [ok |-> FALSE] :
            kind \in {FromLE(SubSeq(data, 1, 4))},
            p \in {IF Len(data) > 16 + plen /\ FromLE(SubSeq(data, 1, 4)) \in DOMAIN PayloadSchema
                   THEN deserialize_payload(FromLE(SubSeq(data, 1, 4)),
                                            SubSeq(data, 17, 16 + plen))
                   ELSE [ok |-> FALSE] : plen \in {FromLE(SubSeq(data, 5, 8))}}} :
         TRUE

\* Message::deserialize: "Message too short", "Incomplete message" and
\* "Unknown message type" throw; otherwise the payload is decoded.
deserialize(data) ==
  IF Len(data) < 16 THEN [ok |-> FALSE]
  ELSE CHOOSE res \in
         {IF p.ok THEN [ok |-> TRUE, kind |-> kind, seq |-> FromLE(SubSeq(data, 9, 12)),
                      fields |-> p.vals]
          ELSE [ok |-> FALSE] :
            kind \in {FromLE(SubSeq(data, 1, 4))},
            p \in {IF Len(data) >= 16 + plen /\ FromLE(SubSeq(data, 1, 4)) \in DOMAIN PayloadSchema
                   THEN deserialize_payload(FromLE(SubSeq(data, 1, 4)),
                                            SubSeq(data, 17, 16 + plen))
                   ELSE [ok |-> FALSE] : plen \in {FromLE(SubSeq(data, 5, 8))}}} :
         TRUE

-----------------------------------------------------------------------------
(* The FAST engine's cipher (crypto/xor_cipher.cpp).                       *)

KeySize == Len(FastKey)  \* XorCipher::KEY_SIZE

\* XorCipher(key): base_key_ and current_key_ are the key, round 0.
XorCipher(key) == [key |-> key, round |-> 0]

RotateLeft(b) == ((2 * b) % 256) + (b \div 128)

\* update_key: ++round_counter_, then each key byte i is XORed with
\* (round * 31 + i * 17) & 0xFF and rotated left by one bit.
RECURSIVE UpdatedFrom(_, _, _)
UpdatedFrom(key, r, i) ==
  IF i > Len(key) THEN <<>>
  ELSE <<RotateLeft(key[i] ^^ ((r * 31 + (i - 1) * 17) % 256))>>
         \o UpdatedFrom(key, r, i + 1)
update_key(c) == [round |-> c.round + 1, key |-> UpdatedFrom(c.key, c.round + 1, 1)]

\* current_key_ changes only by update_key (round_counter_ + 1) and by
\* reset (base_key_, round 0), so it is always base_key_ updated
\* round_counter_ times: a cipher's state is its round_counter_, and its
\* key that round's entry of the schedule.  The rounds a cipher may reach:
\* every frame of the connection in one run.
MaxRound == (MaxMsgs * Max({Len(serialize(m)) : m \in Messages})) \div ChunkSize
RECURSIVE Schedule(_)
Schedule(n) ==
  IF n = 0 THEN <<XorCipher(FastKey)>>
  ELSE LET s == Schedule(n - 1) IN Append(s, update_key(s[n]))
KeySchedule == Schedule(MaxRound)
CurrentKey(round) == KeySchedule[round + 1].key

\* reset: current_key_ = base_key_, round_counter_ = 0.
reset(round) == 0

\* data[i] ^ key[i]: the byte XOR, tabulated once.
XorByte == [a \in 0..255 |-> [b \in 0..255 |-> a ^^ b]]

\* One chunk XORed with current_key_[i % KEY_SIZE].
RECURSIVE XorFrom(_, _, _)
XorFrom(bytes, key, i) ==
  IF i > Len(bytes) THEN <<>>
  ELSE <<XorByte[bytes[i]][key[((i - 1) % KeySize) + 1]]>> \o XorFrom(bytes, key, i + 1)
XorChunk(bytes, round) == XorFrom(bytes, CurrentKey(round), 1)

\* process: the data in chunks of CHUNK_SIZE, each XORed with the current
\* key, which is updated between chunks (not after the last one): one
\* update_key for each chunk after the first.
RECURSIVE ProcessFrom(_, _)
ProcessFrom(round, data) ==
  IF Len(data) <= ChunkSize THEN XorChunk(data, round)
  ELSE XorChunk(SubSeq(data, 1, ChunkSize), round)
         \o ProcessFrom(round + 1, SubSeq(data, ChunkSize + 1, Len(data)))
Updates(n) == IF n <= ChunkSize THEN 0 ELSE (n - 1) \div ChunkSize
process(round, data) ==
  [round |-> round + Updates(Len(data)), out |-> ProcessFrom(round, data)]

\* FastSecurityEngine::encrypt: reset the cipher, then process.
encrypt(round, data) == process(reset(round), data)

\* Mutant: decrypt goes on from the state the previous message left.
decrypt_without_reset(round, data) == process(round, data)

\* FastSecurityEngine::decrypt: reset the cipher, then process.
decrypt(round, data) == process(reset(round), data)

-----------------------------------------------------------------------------
(* Socket calls.                                                           *)

\* What one ::send of n bytes returns on a blocking socket (interrupted
\* by a signal it returns less), and the sizes of the pieces TCP may
\* deliver a run of n bytes in: all of it, or its first Segment bytes, or,
\* for a run of 4 bytes (a length prefix, or a frame's last 4 bytes), its
\* first ShortCut bytes.  TCP may cut a stream anywhere; these cuts are the
\* ones the check explores.
Taken(n) ==
  {n, IF n < Segment THEN n ELSE Segment} \cup (IF n = 4 THEN {ShortCut} ELSE {})

\* The bytes serialize gives each message, and what the engine's encrypt
\* makes of them from every state of the sender's cipher (evaluated once).
Frame == [m \in Messages |-> serialize(m)]
Sealed == [m \in Messages |-> [r \in 0..MaxRound |-> encrypt(r, Frame[m])]]

\* send_message, first half: serialize, encrypt_message (the engine's
\* encrypt), then send(&length, 4) once; the count it returns is not
\* looked at.
SendLength ==
  /\ snd.pc = "idle"
  /\ Len(sent) < MaxMsgs
  /\ \E m \in Messages, k \in Taken(4) :
       LET e == Sealed[m][scipher]
       IN  /\ inflight' = Append(inflight, SubSeq(LE(Len(e.out), 4), 1, k))
           /\ snd' = [pc |-> "data", buf |-> e.out, pos |-> 0]
           /\ sent' = Append(sent, m)
           /\ scipher' = e.round
           /\ splitLength' = (splitLength \/ k < 4)
  /\ UNCHANGED <<arrived, rcv, received, rcipher>>

\* Mutant: one send for the bytes, its count not looked at.
SendData_without_loop ==
  /\ snd.pc = "data"
  /\ \E k \in Taken(Len(snd.buf) - snd.pos) :
       /\ inflight' = Append(inflight, SubSeq(snd.buf, snd.pos + 1, snd.pos + k))
       /\ snd' = [pc |-> "idle", buf |-> <<>>, pos |-> 0]
  /\ UNCHANGED <<arrived, rcv, sent, received, scipher, rcipher,
                 splitLength>>

\* send_message, second half: the loop of sends until every byte is taken.
SendData ==
  /\ snd.pc = "data"
  /\ \E k \in Taken(Len(snd.buf) - snd.pos) :
       /\ inflight' = Append(inflight, SubSeq(snd.buf, snd.pos + 1, snd.pos + k))
       /\ snd' = IF snd.pos + k = Len(snd.buf)
                 THEN [pc |-> "idle", buf |-> <<>>, pos |-> 0]
                 ELSE [snd EXCEPT !.pos = @ + k]
  /\ UNCHANGED <<arrived, rcv, sent, received, scipher, rcipher,
                 splitLength>>

\* The sender closes its socket after its last message (disconnect).
SenderClose ==
  /\ snd.pc = "idle"
  /\ snd' = [snd EXCEPT !.pc = "closed"]
  /\ UNCHANGED <<inflight, arrived, rcv, sent, received, scipher, rcipher,
                 splitLength>>

\* TCP delivers the oldest piece, whole or its first part.
Arrive ==
  /\ inflight # <<>>
  /\ \E k \in Taken(Len(Head(inflight))) :
       /\ arrived' = arrived \o SubSeq(Head(inflight), 1, k)
       /\ inflight' = IF k = Len(Head(inflight)) THEN Tail(inflight)
                      ELSE [inflight EXCEPT ![1] = SubSeq(@, k + 1, Len(@))]
  /\ UNCHANGED <<snd, rcv, sent, received, scipher, rcipher, splitLength>>

\* ::recv returns what is buffered, up to n bytes.
Recv(n) == SubSeq(arrived, 1, IF n < Len(arrived) THEN n ELSE Len(arrived))

\* receive_message, first half: receive(&length, 4) once.  When fewer than
\* 4 bytes come, the rest of the local `length` is uninitialized.
RecvLength ==
  /\ rcv.pc = "len"
  /\ arrived # <<>>
  /\ LET got == Recv(4)
     IN  \E g \in [1..(4 - Len(got)) -> Garbage] :
           /\ rcv' = [pc |-> "data", length |-> FromLE(got \o g), data |-> <<>>]
           /\ arrived' = SubSeq(arrived, Len(got) + 1, Len(arrived))
           /\ splitLength' = (splitLength \/ Len(got) < 4)
  /\ UNCHANGED <<snd, inflight, sent, received, scipher, rcipher>>

\* Mutant: each receive asks for `length` bytes, not the ones still missing.
RecvData_overread ==
  /\ rcv.pc = "data"
  /\ Len(rcv.data) < rcv.length
  /\ arrived # <<>>
  /\ LET got == Recv(rcv.length)
     IN  /\ rcv' = [rcv EXCEPT !.data = @ \o got]
         /\ arrived' = SubSeq(arrived, Len(got) + 1, Len(arrived))
  /\ UNCHANGED <<snd, inflight, sent, received, scipher, rcipher,
                 splitLength>>

\* receive_message, the loop of receives until `length` bytes are in.
RecvData ==
  /\ rcv.pc = "data"
  /\ Len(rcv.data) < rcv.length
  /\ arrived # <<>>
  /\ LET got == Recv(rcv.length - Len(rcv.data))
     IN  /\ rcv' = [rcv EXCEPT !.data = @ \o got]
         /\ arrived' = SubSeq(arrived, Len(got) + 1, Len(arrived))
  /\ UNCHANGED <<snd, inflight, sent, received, scipher, rcipher,
                 splitLength>>

\* receive_message: decrypt_message (the engine's decrypt) on the bytes
\* once `length` of them are in.
Decrypt ==
  /\ rcv.pc = "data"
  /\ Len(rcv.data) = rcv.length
  /\ \E d \in {decrypt(rcipher, rcv.data)} :
       /\ rcv' = [rcv EXCEPT !.pc = "plain", !.data = d.out]
       /\ rcipher' = d.round
  /\ UNCHANGED <<snd, inflight, arrived, sent, received, scipher,
                 splitLength>>

\* receive_message, last: Message::deserialize; a ProtocolException ends
\* the handler.
Decode ==
  /\ rcv.pc = "plain"
  /\ \E r \in {deserialize(rcv.data)} :
       IF r.ok
       THEN /\ received' = Append(received, [kind |-> r.kind, seq |-> r.seq,
                                            fields |-> r.fields])
            /\ rcv' = [pc |-> "len", length |-> 0, data |-> <<>>]
       ELSE /\ rcv' = [rcv EXCEPT !.pc = "error"]
            /\ UNCHANGED received
  /\ UNCHANGED <<snd, inflight, arrived, sent, scipher, rcipher,
                 splitLength>>

\* Socket::receive returns 0 once the peer has closed and every byte is
\* read: "Connection closed by peer" ends the handler.
RecvClosed ==
  /\ rcv.pc = "len" \/ (rcv.pc = "data" /\ Len(rcv.data) < rcv.length)
  /\ snd.pc = "closed" /\ inflight = <<>> /\ arrived = <<>>
  /\ rcv' = [rcv EXCEPT !.pc = "closed"]
  /\ UNCHANGED <<snd, inflight, arrived, sent, received, scipher, rcipher,
                 splitLength>>

Init ==
  /\ snd = [pc |-> "idle", buf |-> <<>>, pos |-> 0]
  /\ inflight = <<>>
  /\ arrived = <<>>
  /\ rcv = [pc |-> "len", length |-> 0, data |-> <<>>]
  /\ sent = <<>>
  /\ received = <<>>
  /\ scipher = XorCipher(FastKey).round
  /\ rcipher = XorCipher(FastKey).round
  /\ splitLength = FALSE

Sender == SendLength \/ SendData \/ SenderClose
Receiver == RecvLength \/ RecvData \/ Decrypt \/ Decode \/ RecvClosed

Next == Sender \/ Arrive \/ Receiver

\* Both threads run whenever they can; TCP delivers what is in flight.
Spec == Init /\ [][Next]_vars
          /\ WF_vars(SendData) /\ WF_vars(Arrive) /\ WF_vars(Receiver)

-----------------------------------------------------------------------------
(* Properties.                                                             *)

TypeOK ==
  /\ snd.pc \in {"idle", "data", "closed"}
  /\ rcv.pc \in {"len", "data", "plain", "error", "closed"}
  /\ arrived \in Seq(0..255)
  /\ rcv.pc = "data" => Len(rcv.data) <= rcv.length
  /\ Len(received) <= Len(sent)
  /\ splitLength \in BOOLEAN

\* Framing and codec together: every message the receiver decodes is the
\* one sent at that position, kind and field for field, whatever pieces
\* TCP cut the stream into.  A length prefix moved in part misframes the
\* stream (the count of send and receive is ignored); the frames after it
\* are then refused by deserialize ("Unknown message type", "Incomplete
\* message") or never complete, but none is read as another message.
ReceivedAreSent ==
  \A i \in 1..Len(received) :
    /\ i <= Len(sent)
    /\ received[i].kind = sent[i].kind
    /\ received[i].fields = sent[i].fields

\* The codec alone: Message::deserialize gives back the kind and every
\* field of what Message::serialize wrote, for a message of every kind and
\* every message sent, and rejects every frame cut short.
RoundTrips(m) ==
  LET bytes == serialize(m)
  IN  /\ deserialize(bytes) = [ok |-> TRUE, kind |-> m.kind, seq |-> 0,
                               fields |-> m.fields]
      /\ \A k \in 0..(Len(bytes) - 1) : ~deserialize(SubSeq(bytes, 1, k)).ok
\* Evaluated once, for every message the check uses.
RoundTripOf == [m \in CodecCases \cup Messages |-> RoundTrips(m)]
CodecRoundTrip ==
  \A m \in CodecCases \cup Range(sent) : RoundTripOf[m]

\* Every message whose send_message returned is eventually decoded, as
\* long as every length prefix went out and came in whole: the loops of
\* sends and receives move every byte of a frame, however TCP splits it.
\* Once a prefix has moved in part (splitLength) the receiver may wait
\* for ever on a length no frame has; ReceivedAreSent is what still holds.
SentEventuallyReceived ==
  \A n \in 1..MaxMsgs :
    (Len(sent) >= n /\ snd.pc # "data")
      ~> (Len(received) >= n \/ splitLength)

=============================================================================
