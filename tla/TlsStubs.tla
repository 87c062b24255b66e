------------------------------- MODULE TlsStubs -------------------------------
(***************************************************************************)
(* The stubs the two TLS handshake harnesses run against                   *)
(* (stubs/waltz/fd_tls_proto_override.c, fd_tls_helper.c): parsers and     *)
(* writers that give any result a caller may get, with views into the      *)
(* record, and callbacks that check the memory they are given.             *)
(*                                                                         *)
(* The handshake itself (fd_tls_server_handshake, fd_tls_client_handshake) *)
(* is outside of the repository.  It is modelled from the sequences of     *)
(* states in the harnesses: each call has a record with one message, which *)
(* begins anywhere in it, takes the state to the next one, and first       *)
(* writes what the diagrams of the harnesses say is sent.  A call that     *)
(* fails ends the program.  The loop over a client's states is commented   *)
(* out in its harness, which makes the first call only; ClientCalls says   *)
(* how many are made.  Sizes are small numbers in place of bytes.          *)
(***************************************************************************)
EXTENDS Integers, Sequences

CONSTANTS MaxRecord,    \* bytes of a record
          MaxWire,      \* bytes of the buffer that replies are written to
          PubLen,       \* bytes of a public key (32)
          RawPubLen,    \* bytes of an encoded raw public key (57)
          ClientCalls   \* calls a client makes

TlsStubsAssumption ==
  /\ {MaxRecord, MaxWire, PubLen, RawPubLen} \subseteq Nat \ {0}
  /\ ClientCalls \in 1 .. 7

VARIABLES
  side, st,   \* who it is; the number of its state in its sequence
  calls,      \* calls left
  pc,
  record,     \* size of the record, where its message begins
  views,      \* parts of the record that were handed out: first byte, size
  wire,       \* bytes of the reply so far
  todo,       \* messages to write
  asserts     \* whether all assertions of the stubs held

vars == <<side, st, calls, pc, record, views, wire, todo, asserts>>

Server == <<"START", "WAIT_CERT", "WAIT_CV", "WAIT_FINISHED", "CONNECTED">>
Client == <<"START", "WAIT_SH", "WAIT_EE", "WAIT_CERT", "WAIT_CV", "WAIT_FINISHED", "CONNECTED">>
State == IF side = "server" THEN Server[st] ELSE Client[st]

Init ==
  /\ side \in {"server", "client"}
  /\ st = 1 /\ calls = IF side = "server" THEN 5 ELSE ClientCalls
  /\ pc = "call" /\ record = [sz |-> 0, off |-> 0] /\ views = {}
  /\ wire = 0 /\ todo = <<>> /\ asserts = TRUE

\* The harness's havocked record, and where its message begins.
Call ==
  /\ pc = "call" /\ calls > 0
  /\ record' \in {r \in [sz : 1 .. MaxRecord, off : 0 .. MaxRecord] : r.off <= r.sz}
  /\ calls' = calls - 1 /\ views' = {} /\ wire' = 0
  /\ pc' = "read"
  /\ UNCHANGED <<side, st, todo, asserts>>

Rest == record.sz - record.off
InRecord(off, sz) == off >= 0 /\ off + sz <= record.sz

\* Mutant: the size of a view is bound by the message's size alone.
ViewsLong(sz) == {v \in [off : 0 .. sz - 1, sz : 0 .. sz - 1] : v.sz < sz}

\* The views of a message of sz bytes that a parser may hand out.
Views(sz) == {v \in [off : 0 .. sz - 1, sz : 0 .. sz - 1] : v.sz < sz - v.off}

Fail == pc' = "failed" /\ UNCHANGED <<views, asserts, todo, st>>

\* What the parsers have in common: any size but 0, refused when it is more
\* than what is left, and, for hello, views into the message.
Decode(hello) ==
  \E actual_sz \in 1 .. Rest + 1 :
    IF actual_sz > Rest THEN Fail
    ELSE /\ asserts' = (asserts /\ InRecord(record.off, actual_sz))
         /\ \E quic_tp, alpn \in Views(actual_sz) :
              views' = IF hello
                       THEN {[v EXCEPT !.off = record.off + @] : v \in {quic_tp, alpn}}
                       ELSE {}
         /\ pc' = "done" /\ UNCHANGED <<todo, st>>

DecodeClientHello == side = "server" /\ State = "START" /\ Decode(TRUE)
DecodeServerHello == State = "WAIT_SH" /\ Decode(FALSE)
DecodeEncExt == State = "WAIT_EE" /\ Decode(TRUE)

\* Mutant: ok is any value, as in generic_encode.
ExtractAny(cert_sz) ==
  {[pubkey |-> TRUE, off |-> o] : o \in 0 .. cert_sz - PubLen - 1}
    \cup {[pubkey |-> FALSE, off |-> 0]}

\* fd_tls_extract_cert_pubkey: ok is 0, a public key is never found.
Extract(cert_sz) ==
  LET ok == FALSE
  IN IF ok /\ cert_sz >= PubLen
     THEN {[pubkey |-> TRUE, off |-> o] : o \in 0 .. cert_sz - PubLen - 1}
     ELSE {[pubkey |-> FALSE, off |-> 0]}

ExtractCertPubkey ==
  /\ State = "WAIT_CERT"
  /\ \E res \in Extract(Rest) :
       IF res.pubkey
       THEN /\ views' = {[off |-> record.off + res.off, sz |-> PubLen]}
            /\ pc' = "done" /\ UNCHANGED <<asserts, todo, st>>
       ELSE Fail

\* A client that starts has no message to read.
StartClient ==
  /\ side = "client" /\ State = "START"
  /\ pc' = "done" /\ UNCHANGED <<views, asserts, todo, st>>

\* There is no step for the states after WAIT_CERT: see NeverPastCert.
Read ==
  /\ pc = "read"
  /\ \/ DecodeClientHello \/ DecodeServerHello \/ DecodeEncExt
     \/ ExtractCertPubkey \/ StartClient
  /\ UNCHANGED <<side, calls, record, wire>>

\* The transport parameters that were read go to tls_quic_tp_peer, and the
\* messages of the reply are listed.
Accept ==
  /\ pc = "done"
  /\ asserts' = (asserts /\ \A v \in views : InRecord(v.off, v.sz))
  /\ todo' = CASE State = "START" /\ side = "server" ->
                    <<"server_hello", "enc_ext", "cert", "cert_verify">>
               [] State = "START" /\ side = "client" -> <<"client_hello">>
               [] OTHER -> <<>>
  /\ pc' = "write"
  /\ UNCHANGED <<side, st, calls, record, views, wire>>

\* Mutant: one byte more than there is room for.
GenericEncodeOver(wire_sz) == {-1} \cup 0 .. wire_sz + 1

\* generic_encode: an error, or a size that fits.
GenericEncode(wire_sz) == {-1} \cup 0 .. wire_sz

\* fd_tls_encode_raw_public_key
EncodeRawPublicKey(wire_sz) == IF wire_sz < RawPubLen THEN {-1} ELSE {RawPubLen}

\* The next message of the reply.  A certificate is x509 or a raw key.  What
\* tls_quic_tp_self gives to a message with extensions goes into a buffer of
\* the handshake's own, which is not modelled.
Write ==
  /\ pc = "write" /\ todo # <<>>
  /\ LET m == Head(todo)
         left == MaxWire - wire
         rs == IF m = "cert" THEN GenericEncode(left) \cup EncodeRawPublicKey(left)
               ELSE GenericEncode(left)
     IN \E res \in rs :
          IF res < 0 THEN pc' = "failed" /\ UNCHANGED <<wire, todo>>
          ELSE /\ wire' = wire + res /\ todo' = Tail(todo) /\ UNCHANGED pc
  /\ UNCHANGED <<side, st, calls, record, views, asserts>>

\* tls_sendmsg's result is not initialized: any; 0 lets the call succeed.
Send ==
  /\ pc = "write" /\ todo = <<>>
  /\ \/ pc' = "failed" /\ UNCHANGED st
     \/ pc' = "call" /\ st' = st + 1
  /\ UNCHANGED <<side, calls, record, views, wire, todo, asserts>>

Ended == pc = "failed" \/ (pc = "call" /\ calls = 0)

Next == Call \/ Read \/ Accept \/ Write \/ Send \/ (Ended /\ UNCHANGED vars)

Spec == Init /\ [][Next]_vars

-----------------------------------------------------------------------------
(* Properties *)

\* What a parser hands out lies in the record, and no assertion of a parser
\* or of tls_quic_tp_peer fails.
ViewsInRecord == asserts /\ \A v \in views : InRecord(v.off, v.sz)

\* A reply is never longer than the buffer it is written to.
ReplyFits == wire <= MaxWire

\* With these stubs no handshake gets past a certificate: what the harnesses
\* check of the later states, the server's last assertion included, is
\* checked of no run.
NeverPastCert ==
  State \notin {"WAIT_CV", "WAIT_FINISHED", "CONNECTED"}
=============================================================================
