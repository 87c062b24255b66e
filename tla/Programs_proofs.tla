---------------------------- MODULE Programs_proofs ----------------------------
(***************************************************************************)
(* Proofs about the programs of one thread, for all values of their        *)
(* constants.  Each has an invariant of its own; what a program promises   *)
(* is a theorem about the behaviours whose part it is.                     *)
(***************************************************************************)
EXTENDS Programs, ModularLemmas, FiniteSetTheorems

LEMMA Appended ==
  ASSUME NEW S, NEW s \in Seq(S), NEW e \in S
  PROVE  /\ Append(s, e) \in Seq(S)
         /\ Len(s) \in Nat /\ Len(Append(s, e)) = Len(s) + 1
         /\ DOMAIN s = 1 .. Len(s)
         /\ DOMAIN Append(s, e) = 1 .. Len(s) + 1
         /\ \A k \in 1 .. Len(s) : Append(s, e)[k] = s[k]
         /\ Append(s, e)[Len(s) + 1] = e
BY SMT

LEMMA Elements ==
  ASSUME NEW S, NEW s \in Seq(S)
  PROVE  Len(s) \in Nat /\ \A k \in 1 .. Len(s) : s[k] \in S
OBVIOUS

-----------------------------------------------------------------------------
(* Verify *)

\* The flags are what the lines so far say; only a job with --expect is read.
VerifyInv ==
  /\ out \in Seq(V!Lines)
  /\ found_expected = V!Seen({"expected", "no_task", "total"})
  /\ found_error = V!Seen({"error"})
  /\ vacuity_passed = V!At("passed") /\ vacuity_failed = V!At("failed")
  /\ vpc = "launch" => args.input # "empty"
  /\ vpc = "read" => args.expect
  /\ V!Judged => rcode \in Codes /\ exit = V!ExitCode(rcode) % 256

LEMMA SeenAppended ==
  ASSUME out \in Seq(V!Lines), NEW line \in V!Lines, out' = Append(out, line), NEW kinds
  PROVE  V!Seen(kinds)' <=> V!Seen(kinds) \/ line.kind \in kinds
<1>1. /\ Len(out) \in Nat
      /\ DOMAIN out = 1 .. Len(out) /\ DOMAIN out' = 1 .. Len(out) + 1
      /\ \A k \in 1 .. Len(out) : out'[k] = out[k]
      /\ out'[Len(out) + 1] = line
  BY Appended
<1>2. 1 .. Len(out) + 1 = 1 .. Len(out) \cup {Len(out) + 1}
  BY <1>1, SMT
<1> QED
  BY <1>1, <1>2, Zenon DEF V!Seen

LEMMA AtAppended ==
  ASSUME out \in Seq(V!Lines), NEW line \in V!Lines, out' = Append(out, line), NEW kind
  PROVE  V!At(kind)' = V!At(kind) \cup (IF line.kind = kind THEN {line.at} ELSE {})
<1>1. /\ Len(out) \in Nat
      /\ DOMAIN out = 1 .. Len(out) /\ DOMAIN out' = 1 .. Len(out) + 1
      /\ \A k \in 1 .. Len(out) : out'[k] = out[k]
      /\ out'[Len(out) + 1] = line
  BY Appended
<1>2. 1 .. Len(out) + 1 = 1 .. Len(out) \cup {Len(out) + 1}
  BY <1>1, SMT
<1>3. \A e : e \in V!At(kind) <=> \E k \in 1 .. Len(out) : out[k].kind = kind /\ e = out[k].at
  BY <1>1, Zenon DEF V!At
<1>4. \A e : e \in V!At(kind)' <=>
        \E k \in 1 .. Len(out) + 1 : out'[k].kind = kind /\ e = out'[k].at
  BY <1>1, Zenon DEF V!At
<1>5. \A e : e \in V!At(kind)' <=> e \in V!At(kind) \/ (line.kind = kind /\ e = line.at)
  <2>1. ASSUME NEW e, e \in V!At(kind)' PROVE e \in V!At(kind) \/ (line.kind = kind /\ e = line.at)
    <3>1. PICK k \in 1 .. Len(out) + 1 : out'[k].kind = kind /\ e = out'[k].at
      BY <2>1, <1>4, Zenon
    <3>2. CASE k \in 1 .. Len(out)
      BY <3>1, <3>2, <1>1, <1>3, Zenon
    <3>3. CASE k = Len(out) + 1
      BY <3>1, <3>3, <1>1, Zenon
    <3> QED
      BY <3>2, <3>3, <1>2, Zenon
  <2>2. ASSUME NEW e, e \in V!At(kind) \/ (line.kind = kind /\ e = line.at) PROVE e \in V!At(kind)'
    <3>1. CASE e \in V!At(kind)
      <4>1. PICK k \in 1 .. Len(out) : out[k].kind = kind /\ e = out[k].at
        BY <3>1, <1>3, Zenon
      <4>2. k \in 1 .. Len(out) + 1
        BY <1>2, Zenon
      <4>3. out'[k].kind = kind /\ e = out'[k].at
        BY <4>1, <1>1, Zenon
      <4> QED
        BY <4>2, <4>3, <1>4, Zenon
    <3>2. CASE line.kind = kind /\ e = line.at
      <4>1. Len(out) + 1 \in 1 .. Len(out) + 1
        BY <1>2, Zenon
      <4> QED
        BY <3>2, <4>1, <1>1, <1>4, Zenon
    <3> QED
      BY <2>2, <3>1, <3>2
  <2> QED
    BY <2>1, <2>2, Zenon
<1> QED
  BY <1>5, Zenon

LEMMA VerifyInit == V!Init => VerifyInv
<1> SUFFICES ASSUME V!Init PROVE VerifyInv
  OBVIOUS
<1>1. out = <<>> /\ DOMAIN out = {} /\ out \in Seq(V!Lines)
  BY SMT DEF V!Init
<1>2. V!At("passed") = {} /\ V!At("failed") = {}
  BY <1>1, Zenon DEF V!At
<1>3. /\ V!Seen({"error"}) = FALSE
      /\ V!Seen({"expected", "no_task", "total"}) = FALSE
  BY <1>1, Zenon DEF V!Seen
<1>4. /\ found_expected = V!Seen({"expected", "no_task", "total"})
      /\ found_error = V!Seen({"error"})
      /\ vacuity_passed = V!At("passed") /\ vacuity_failed = V!At("failed")
  BY <1>2, <1>3, Zenon DEF V!Init
<1>5. vpc # "launch" /\ vpc # "read" /\ ~V!Judged
  BY SMT DEF V!Init, V!Judged
<1> QED
  BY <1>1, <1>4, <1>5, Zenon DEF VerifyInv

LEMMA VerifyStep == ASSUME VerifyInv, V!Next PROVE VerifyInv'
<1>1. ASSUME UNCHANGED out
      PROVE  /\ V!At("passed")' = V!At("passed") /\ V!At("failed")' = V!At("failed")
             /\ V!Seen({"error"})' = V!Seen({"error"})
             /\ V!Seen({"expected", "no_task", "total"})' = V!Seen({"expected", "no_task", "total"})
  BY <1>1, Zenon DEF V!At, V!Seen
<1>2. CASE V!Start
  BY <1>1, <1>2, SMT DEF V!Start, VerifyInv, V!Judged
<1>3. CASE V!Launch
  BY <1>1, <1>3, SMT DEF V!Launch, VerifyInv, V!Judged
<1>4. ASSUME NEW line \in V!Lines, V!Read(line) PROVE VerifyInv'
  <2>1. out' = Append(out, line) /\ out \in Seq(V!Lines)
    BY <1>4, Zenon DEF V!Read, VerifyInv
  <2>2. out' \in Seq(V!Lines)
    BY <2>1, Appended
  <2>3. /\ found_expected' = V!Seen({"expected", "no_task", "total"})'
        /\ found_error' = V!Seen({"error"})'
    <3>1. V!Seen({"error"})' <=> V!Seen({"error"}) \/ line.kind \in {"error"}
      BY <2>1, SeenAppended
    <3>2. V!Seen({"expected", "no_task", "total"})' <=>
            \/ V!Seen({"expected", "no_task", "total"})
            \/ line.kind \in {"expected", "no_task", "total"}
      BY <2>1, SeenAppended
    <3>3. /\ V!Seen({"error"})' \in BOOLEAN
          /\ V!Seen({"expected", "no_task", "total"})' \in BOOLEAN
      BY Zenon DEF V!Seen
    <3> QED
      BY <1>4, <3>1, <3>2, <3>3, Zenon DEF V!Read, VerifyInv
  <2>4. vacuity_passed' = V!At("passed")' /\ vacuity_failed' = V!At("failed")'
    <3>1. /\ V!At("passed")' = V!At("passed") \cup (IF line.kind = "passed" THEN {line.at} ELSE {})
          /\ V!At("failed")' = V!At("failed") \cup (IF line.kind = "failed" THEN {line.at} ELSE {})
      BY <2>1, AtAppended
    <3>2. V!CheckVacuity(line)
      BY <1>4, Zenon DEF V!Read
    <3>3. vacuity_passed = V!At("passed") /\ vacuity_failed = V!At("failed")
      BY Zenon DEF VerifyInv
    <3>4. CASE line.kind = "passed"
      <4>1. /\ vacuity_passed' = vacuity_passed \cup {line.at}
            /\ vacuity_failed' = vacuity_failed
        BY <3>2, <3>4, Zenon DEF V!CheckVacuity
      <4>2. /\ V!At("passed")' = V!At("passed") \cup {line.at}
            /\ V!At("failed")' = V!At("failed")
        BY <3>1, <3>4, SMT
      <4> QED
        BY <3>3, <4>1, <4>2, Zenon
    <3>5. CASE line.kind = "failed"
      <4>1. /\ vacuity_failed' = vacuity_failed \cup {line.at}
            /\ vacuity_passed' = vacuity_passed
        BY <3>2, <3>5, SMT DEF V!CheckVacuity
      <4>2. /\ V!At("failed")' = V!At("failed") \cup {line.at}
            /\ V!At("passed")' = V!At("passed")
        BY <3>1, <3>5, SMT
      <4> QED
        BY <3>3, <4>1, <4>2, Zenon
    <3>6. CASE line.kind # "passed" /\ line.kind # "failed"
      <4>1. UNCHANGED <<vacuity_passed, vacuity_failed>>
        BY <3>2, <3>6, Zenon DEF V!CheckVacuity
      <4>2. /\ V!At("passed")' = V!At("passed") \cup {}
            /\ V!At("failed")' = V!At("failed") \cup {}
        BY <3>1, <3>6, Zenon
      <4> QED
        BY <3>3, <4>1, <4>2, Zenon
    <3> QED
      BY <3>4, <3>5, <3>6, Zenon
  <2> QED
    BY <1>4, <2>2, <2>3, <2>4, SMT DEF V!Read, VerifyInv, V!Judged
<1>5. CASE V!Finish
  BY <1>1, <1>5, SMT DEF V!Finish, VerifyInv, V!Judged, V!ExitCode
<1>6. CASE vpc = "end" /\ UNCHANGED V!vars
  BY <1>1, <1>6, SMT DEF V!vars, VerifyInv, V!Judged, V!ExitCode
<1> QED
  BY <1>2, <1>3, <1>4, <1>5, <1>6, Zenon DEF V!Next

LEMMA VerifyPromise == VerifyInv => V!OkIsAnswered /\ V!VacuityDecides
<1> SUFFICES ASSUME VerifyInv, V!Judged PROVE V!OkIsAnswered /\ V!VacuityDecides
  BY Zenon DEF V!OkIsAnswered, V!VacuityDecides
<1>1. /\ rcode \in Codes /\ exit = V!ExitCode(rcode) % 256
      /\ args.expect
      /\ found_expected = V!Answered
      /\ V!Vacuous <=> args.vac /\ (found_error \/ vacuity_failed \ vacuity_passed # {})
  BY Zenon DEF VerifyInv, V!Judged, V!Answered, V!Vacuous
<1>2. rcode \in -64 .. 255
  BY <1>1, ProgramsAssumption, Zenon DEF V!VerifyAssumption
<1>3. CASE V!Vacuous
  <2>1. V!ExitCode(rcode) = 2
    BY <1>1, <1>3, Zenon DEF V!ExitCode
  <2>2. exit = 2
    BY <1>1, <2>1, SMT
  <2> QED
    BY <1>3, <2>2, SMT DEF V!OkIsAnswered, V!VacuityDecides
<1>4. CASE ~V!Vacuous /\ rcode # 0
  <2>1. V!ExitCode(rcode) = rcode
    BY <1>1, <1>4, Zenon DEF V!ExitCode
  <2>2. exit = IF rcode < 0 THEN 256 + rcode ELSE rcode
    BY <1>1, <1>2, <2>1, SMT
  <2> QED
    BY <1>2, <1>4, <2>2, SMT DEF V!OkIsAnswered, V!VacuityDecides
<1>5. CASE ~V!Vacuous /\ rcode = 0
  <2>1. V!ExitCode(rcode) = IF V!Answered THEN 0 ELSE 1
    BY <1>1, <1>5, Zenon DEF V!ExitCode
  <2>2. exit = IF V!Answered THEN 0 ELSE 1
    BY <1>1, <2>1, SMT
  <2> QED
    BY <1>5, <2>2, SMT DEF V!OkIsAnswered, V!VacuityDecides
<1> QED
  BY <1>3, <1>4, <1>5

\* verify.py's exit code, for whatever code the command ends with and any
\* number of lines in any order: 0 just for a job that ran well, answered
\* something and had nothing vacuous, 2 for failed assertions and vacuous
\* places, and 1 and 2 for nothing else but a command that ended with them.
THEOREM ExitCodeTellsHolds == Spec => []ExitCodeTells
<1> DEFINE Inv == part = "verify" => VerifyInv
<1>1. Init => Inv
  BY VerifyInit, Zenon DEF Init
<1>2. Inv /\ [Next]_vars => Inv'
  <2>1. ASSUME Inv, UNCHANGED vars PROVE Inv'
    <3>1. UNCHANGED <<part, verifyVars>>
      BY <2>1, Zenon DEF vars
    <3> QED
      BY <2>1, <3>1, Zenon DEF verifyVars, VerifyInv, V!At, V!Seen, V!Judged, V!ExitCode
  <2>2. ASSUME Inv, Next PROVE Inv'
    BY <2>2, VerifyStep, Zenon DEF Next
  <2> QED
    BY <2>1, <2>2
<1>3. Inv => ExitCodeTells
  BY VerifyPromise, Zenon DEF ExitCodeTells
<1> QED
  BY <1>1, <1>2, <1>3, PTL DEF Spec

-----------------------------------------------------------------------------
(* TlsStubs *)

\* The number of WAIT_CERT in the sequence of states.
WaitCert == IF side = "server" THEN 2 ELSE 4

\* No state after WAIT_CERT is reached, and in WAIT_CERT no message is
\* accepted.
TlsInv ==
  /\ side \in {"server", "client"} /\ st \in 1 .. WaitCert
  /\ record \in [sz : Nat, off : Nat] /\ record.off <= record.sz
  /\ asserts = TRUE
  /\ \A v \in views : v \in [off : Nat, sz : Nat] /\ v.off + v.sz <= record.sz
  /\ wire \in 0 .. MaxWire
  /\ st = WaitCert => tlspc \in {"call", "read", "failed"}

LEMMA TlsState ==
  ASSUME side \in {"server", "client"}, st \in 1 .. WaitCert
  PROVE  /\ side = "server" /\ st = 1 => H!State = "START"
         /\ side = "client" /\ st = 1 => H!State = "START"
         /\ st = 2 /\ side = "client" => H!State = "WAIT_SH"
         /\ st = 3 => H!State = "WAIT_EE"
         /\ st = WaitCert => H!State = "WAIT_CERT"
BY SMT DEF WaitCert, H!State, H!Server, H!Client

LEMMA TlsInit == ASSUME H!TlsStubsAssumption, H!Init PROVE TlsInv
BY SMT DEF H!TlsStubsAssumption, H!Init, TlsInv, WaitCert

\* The views of a message of sz bytes that begins at off lie in it.
LEMMA ViewsInMessage ==
  ASSUME NEW off \in Nat, NEW sz \in Nat, NEW v \in H!Views(sz)
  PROVE  LET w == [v EXCEPT !.off = off + @]
         IN  w \in [off : Nat, sz : Nat] /\ w.off + w.sz <= off + sz
BY SMT DEF H!Views

LEMMA TlsDecode ==
  ASSUME TlsInv, NEW hello \in BOOLEAN, H!Decode(hello), tlspc = "read",
         UNCHANGED <<side, record, wire>>, st # WaitCert
  PROVE  TlsInv'
<1>1. PICK actual_sz \in 1 .. H!Rest + 1 :
        IF actual_sz > H!Rest THEN H!Fail
        ELSE /\ asserts' = (asserts /\ H!InRecord(record.off, actual_sz))
             /\ \E quic_tp, alpn \in H!Views(actual_sz) :
                  views' = IF hello
                           THEN {[v EXCEPT !.off = record.off + @] : v \in {quic_tp, alpn}}
                           ELSE {}
             /\ tlspc' = "done" /\ UNCHANGED <<todo, st>>
  BY Zenon DEF H!Decode
<1>2. record.sz \in Nat /\ record.off \in Nat /\ record.off <= record.sz
  BY SMT DEF TlsInv
<1>3. H!Rest \in Nat /\ record.off + H!Rest = record.sz /\ actual_sz \in Nat \ {0}
  BY <1>1, <1>2, SMT DEF H!Rest
<1>4. CASE actual_sz > H!Rest
  BY <1>1, <1>4, SMT DEF H!Fail, TlsInv, WaitCert
<1>5. CASE ~(actual_sz > H!Rest)
  <2>1. record.off + actual_sz <= record.sz
    BY <1>2, <1>3, <1>5, SMT
  <2>2. asserts' = TRUE
    <3>1. H!InRecord(record.off, actual_sz)
      BY <1>2, <1>3, <2>1, SMT DEF H!InRecord
    <3>2. asserts' = (asserts /\ H!InRecord(record.off, actual_sz)) /\ asserts = TRUE
      BY <1>1, <1>5, Zenon DEF TlsInv
    <3> QED
      BY <3>1, <3>2, Zenon
  <2>3. \A v \in views' : v \in [off : Nat, sz : Nat] /\ v.off + v.sz <= record.sz
    <3>1. PICK quic_tp \in H!Views(actual_sz), alpn \in H!Views(actual_sz) :
            views' = IF hello
                     THEN {[v EXCEPT !.off = record.off + @] : v \in {quic_tp, alpn}}
                     ELSE {}
      BY <1>1, <1>5, Zenon
    <3> SUFFICES ASSUME NEW w \in views'
                 PROVE  w \in [off : Nat, sz : Nat] /\ w.off + w.sz <= record.sz
      OBVIOUS
    <3>2. PICK v \in H!Views(actual_sz) : w = [v EXCEPT !.off = record.off + @]
      BY <3>1, Zenon
    <3>3. w \in [off : Nat, sz : Nat] /\ w.off + w.sz <= record.off + actual_sz
      BY <1>2, <1>3, <3>2, ViewsInMessage
    <3> QED
      BY <1>2, <1>3, <2>1, <3>3, SMT
  <2> QED
    BY <1>1, <1>5, <2>2, <2>3, SMT DEF TlsInv, WaitCert
<1> QED
  BY <1>4, <1>5

LEMMA TlsStep == ASSUME H!TlsStubsAssumption, TlsInv, H!Next PROVE TlsInv'
<1>1. CASE H!Call
  <2>1. record' \in [sz : Nat, off : Nat] /\ record'.off <= record'.sz
    BY <1>1, SMT DEF H!Call, H!TlsStubsAssumption
  <2> QED
    BY <1>1, <2>1, SMT DEF H!Call, TlsInv, WaitCert, H!TlsStubsAssumption
<1>2. CASE H!Read
  <2>1. tlspc = "read" /\ UNCHANGED <<side, record, wire>>
    BY <1>2, Zenon DEF H!Read
  <2>2. /\ side \in {"server", "client"} /\ st \in 1 .. WaitCert
        /\ st = WaitCert => H!State = "WAIT_CERT"
    BY TlsState, Zenon DEF TlsInv
  <2>3. ASSUME NEW hello \in BOOLEAN, H!Decode(hello), H!State # "WAIT_CERT"
        PROVE  TlsInv'
    BY <2>1, <2>2, <2>3, TlsDecode, Zenon
  <2>4. CASE H!DecodeClientHello
    <3>1. H!Decode(TRUE) /\ H!State = "START" /\ "START" # "WAIT_CERT"
      BY <2>4, Zenon DEF H!DecodeClientHello
    <3> QED
      BY <2>3, <3>1, Zenon
  <2>5. CASE H!DecodeServerHello
    <3>1. H!Decode(FALSE) /\ H!State = "WAIT_SH" /\ "WAIT_SH" # "WAIT_CERT"
      BY <2>5, Zenon DEF H!DecodeServerHello
    <3> QED
      BY <2>3, <3>1, Zenon
  <2>8. CASE H!DecodeEncExt
    <3>1. H!Decode(TRUE) /\ H!State = "WAIT_EE" /\ "WAIT_EE" # "WAIT_CERT"
      BY <2>8, Zenon DEF H!DecodeEncExt
    <3> QED
      BY <2>3, <3>1, Zenon
  <2>6. CASE H!ExtractCertPubkey
    <3>1. H!Fail
      BY <2>6, SMT DEF H!ExtractCertPubkey, H!Extract
    <3> QED
      BY <2>1, <3>1, SMT DEF H!Fail, TlsInv, WaitCert
  <2>7. CASE H!StartClient
    BY <2>1, <2>2, <2>7, SMT DEF H!StartClient, TlsInv, WaitCert
  <2> QED
    BY <1>2, <2>4, <2>5, <2>6, <2>7, <2>8, Zenon DEF H!Read
<1>3. CASE H!Accept
  <2>1. \A v \in views : H!InRecord(v.off, v.sz)
    BY SMT DEF TlsInv, H!InRecord
  <2>2. asserts' = TRUE
    BY <1>3, <2>1, Zenon DEF H!Accept, TlsInv
  <2>3. tlspc = "done" /\ tlspc' = "write" /\ UNCHANGED <<side, st, record, views, wire>>
    BY <1>3, Zenon DEF H!Accept
  <2> QED
    BY <2>2, <2>3, SMT DEF TlsInv, WaitCert
<1>4. CASE H!Write
  <2>1. tlspc = "write" /\ UNCHANGED <<side, st, record, views, asserts>>
    BY <1>4, Zenon DEF H!Write
  <2>2. wire' \in 0 .. MaxWire
    <3>1. MaxWire \in Nat /\ RawPubLen \in Nat /\ wire \in 0 .. MaxWire
      BY SMT DEF H!TlsStubsAssumption, TlsInv
    <3>2. PICK res \in H!GenericEncode(MaxWire - wire) \cup H!EncodeRawPublicKey(MaxWire - wire) :
            IF res < 0 THEN wire' = wire ELSE wire' = wire + res
      BY <1>4, Zenon DEF H!Write
    <3> QED
      BY <3>1, <3>2, SMT DEF H!GenericEncode, H!EncodeRawPublicKey
  <2> QED
    BY <2>1, <2>2, SMT DEF TlsInv, WaitCert
<1>5. CASE H!Send
  BY <1>5, SMT DEF H!Send, TlsInv, WaitCert
<1>6. CASE UNCHANGED H!vars
  BY <1>6, SMT DEF H!vars, TlsInv, WaitCert
<1> QED
  BY <1>1, <1>2, <1>3, <1>4, <1>5, <1>6, Zenon DEF H!Next

LEMMA TlsPromise ==
  ASSUME TlsInv PROVE H!ViewsInRecord /\ H!ReplyFits /\ H!NeverPastCert
<1>1. H!ViewsInRecord
  BY SMT DEF TlsInv, H!ViewsInRecord, H!InRecord
<1>2. H!ReplyFits
  BY SMT DEF TlsInv, H!ReplyFits
<1>3. st = 1 \/ st = 2 \/ st = 3 \/ st = WaitCert
  BY SMT DEF TlsInv, WaitCert
<1>4. H!NeverPastCert
  BY <1>3, TlsState, SMT DEF TlsInv, WaitCert, H!NeverPastCert
<1> QED
  BY <1>1, <1>2, <1>4

\* The TLS stubs: views lie in the record whatever sizes are drawn, replies
\* fit, and the harnesses check nothing behind a certificate.
THEOREM HandshakeInBoundsHolds == Spec => []HandshakeInBounds
<1> DEFINE Inv == part = "tls" => TlsInv
<1>1. Init => Inv
  BY ProgramsAssumption, TlsInit, Zenon DEF Init
<1>2. Inv /\ [Next]_vars => Inv'
  <2>1. ASSUME Inv, UNCHANGED vars PROVE Inv'
    <3>1. UNCHANGED <<part, tlsVars>>
      BY <2>1, Zenon DEF vars
    <3> QED
      BY <2>1, <3>1, Zenon DEF tlsVars, TlsInv, WaitCert
  <2>2. ASSUME Inv, Next PROVE Inv'
    BY <2>2, ProgramsAssumption, TlsStep, Zenon DEF Next
  <2> QED
    BY <2>1, <2>2
<1>3. Inv => HandshakeInBounds
  BY TlsPromise, Zenon DEF HandshakeInBounds
<1> QED
  BY <1>1, <1>2, <1>3, PTL DEF Spec

-----------------------------------------------------------------------------
(* FseqJobs *)

\* Before the first fd_fseq_new there is nothing to join; until the second,
\* the one fseq is the one whose number the block has.
FseqInv ==
  /\ made \in Nat /\ joined \subseteq Regions /\ own \subseteq Regions
  /\ DOMAIN wrote = Regions /\ shmem \in [Regions -> [magic : BOOLEAN, seq0 : Int]]
  /\ made = 0 =>
       joined = {} /\ own = {} /\ g_ul_ptr = <<>> /\ \A r \in Regions : ~shmem[r].magic
  /\ made > 0 => 0 \in DOMAIN g_ul_ptr
  /\ made = 1 => joined \subseteq own /\ \A r \in Regions : shmem[r].magic => r \in own
  /\ made = 1 => \A r, q \in own : r = q
  /\ Q!AssertsHold

LEMMA FseqInit == ASSUME Q!Init PROVE FseqInv
<1>1. shmem \in [Regions -> [magic : BOOLEAN, seq0 : Int]]
  BY SMT DEF Q!Init, Q!Garbage
<1>2. DOMAIN wrote = Regions /\ \A r \in Regions : ~shmem[r].magic
  BY SMT DEF Q!Init
<1> QED
  BY <1>1, <1>2, SMT DEF Q!Init, FseqInv, Q!AssertsHold

LEMMA FseqNew ==
  ASSUME Q!FseqJobsAssumption, FseqInv, NEW r \in Regions, Q!New(r)
  PROVE  FseqInv'
<1>1. PICK seq0 \in Seqs, size \in FseqSizes :
        /\ Q!Initialize(size, seq0)
        /\ shmem' = [shmem EXCEPT ![r] = [magic |-> TRUE, seq0 |-> seq0]]
        /\ wrote' = [wrote EXCEPT ![r] = seq0]
  BY Zenon DEF Q!New
<1>2. /\ made' = made + 1 /\ UNCHANGED <<joined, got>> /\ made \in Nat
      /\ own' = IF Q!Allocated THEN own \ {r} ELSE {r}
  BY Zenon DEF Q!New, FseqInv
<1>3. /\ DOMAIN wrote' = Regions /\ wrote'[r] = seq0
      /\ \A q \in Regions \ {r} : wrote'[q] = wrote[q] /\ shmem'[q] = shmem[q]
      /\ shmem' \in [Regions -> [magic : BOOLEAN, seq0 : Int]] /\ shmem'[r].magic
  BY <1>1, SMT DEF FseqInv, Q!FseqJobsAssumption
<1>4. \A q \in joined : shmem'[q].magic \/ (q = Hidden /\ made + 1 > 1)
  <2> SUFFICES ASSUME NEW q \in joined
               PROVE  shmem'[q].magic \/ (q = Hidden /\ made + 1 > 1)
    OBVIOUS
  <2>1. q \in Regions /\ (shmem[q].magic \/ (q = Hidden /\ made > 1))
    BY Zenon DEF FseqInv, Q!AssertsHold
  <2> QED
    BY <1>2, <1>3, <2>1, SMT
<1>5. CASE made = 0
  <2>1. /\ g_ul_ptr' = [k \in 0 .. size |-> IF k = 0 THEN seq0 ELSE Q!Garbage]
        /\ own' = {r} /\ joined' = {}
    BY <1>1, <1>2, <1>5, Zenon DEF Q!Initialize, Q!Allocated, FseqInv
  <2>2. 0 \in 0 .. size
    BY <1>1, SMT DEF Q!FseqJobsAssumption
  <2>3. 0 \in DOMAIN g_ul_ptr' /\ g_ul_ptr'[0] = seq0
    BY <2>1, <2>2, Zenon
  <2>4. made' = 1 /\ made' \in Nat
    BY <1>2, <1>5, SMT
  <2>5. \A q \in Regions : shmem'[q].magic => q \in own'
    BY <1>3, <1>5, <2>1, Zenon DEF FseqInv
  <2>6. Q!AssertsHold'
    BY <1>2, <1>3, <2>1, <2>3, Zenon DEF Q!AssertsHold, FseqInv
  <2>7. made' # 0
    BY <2>4, SMT
  <2> QED
    BY <1>3, <2>1, <2>3, <2>4, <2>5, <2>6, <2>7, SMT DEF FseqInv
<1>6. CASE made # 0
  <2>1. made' \in Nat /\ made' # 0 /\ made' # 1 /\ made > 0 /\ made' = made + 1
    BY <1>2, <1>6, SMT
  <2>2. 0 \in DOMAIN g_ul_ptr
    BY <2>1, Zenon DEF FseqInv
  <2>3. Q!Allocated
    BY <2>2, SMT DEF Q!Allocated
  <2>4. g_ul_ptr' = g_ul_ptr /\ own' = own \ {r}
    BY <1>1, <1>2, <2>3, Zenon DEF Q!Initialize
  <2>5. \A q \in own' : g_ul_ptr'[0] = wrote'[q]
    BY <1>3, <2>4, SMT DEF FseqInv, Q!AssertsHold
  <2>6. Q!AssertsHold'
    BY <1>2, <1>4, <2>1, <2>5, Zenon DEF FseqInv, Q!AssertsHold
  <2> QED
    BY <1>2, <1>3, <2>1, <2>2, <2>4, <2>6, SMT DEF FseqInv
<1> QED
  BY <1>5, <1>6

LEMMA FseqStep == ASSUME Q!FseqJobsAssumption, FseqInv, Q!Next PROVE FseqInv'
<1>1. ASSUME NEW r \in Regions, Q!New(r) PROVE FseqInv'
  BY <1>1, FseqNew
<1>2. ASSUME NEW r \in Regions, Q!Join(r) PROVE FseqInv'
  <2>1. /\ shmem[r].magic /\ joined' = joined \cup {r}
        /\ UNCHANGED <<shmem, g_ul_ptr, wrote, own, made, got>>
    BY <1>2, Zenon DEF Q!Join
  <2>2. made # 0
    BY <2>1, Zenon DEF FseqInv
  <2>3. made = 1 => joined' \subseteq own
    BY <2>1, SMT DEF FseqInv
  <2> QED
    BY <2>1, <2>2, <2>3, SMT DEF FseqInv, Q!AssertsHold
<1>3. ASSUME NEW r \in Regions, Q!Query(r) \/ Q!Seq0(r) PROVE FseqInv'
  <2>1. UNCHANGED <<shmem, g_ul_ptr, joined, wrote, own, made>> /\ got'.what # "left"
    BY <1>3, SMT DEF Q!Query, Q!Seq0
  <2> QED
    BY <2>1, Zenon DEF FseqInv, Q!AssertsHold
<1>4. ASSUME NEW r \in Regions, Q!Update(r) PROVE FseqInv'
  <2>1. PICK seq \in Seqs : g_ul_ptr' = [g_ul_ptr EXCEPT ![0] = seq]
                            /\ wrote' = [wrote EXCEPT ![r] = seq]
    BY <1>4, Zenon DEF Q!Update
  <2>2. r \in joined /\ own' = {r} /\ UNCHANGED <<shmem, joined, made, got>>
    BY <1>4, Zenon DEF Q!Update
  <2>3. made # 0 /\ made > 0 /\ 0 \in DOMAIN g_ul_ptr
    BY <2>2, SMT DEF FseqInv
  <2>4. /\ DOMAIN wrote' = Regions /\ wrote'[r] = seq
        /\ 0 \in DOMAIN g_ul_ptr' /\ g_ul_ptr'[0] = seq
    BY <2>1, <2>3, Zenon DEF FseqInv
  <2>5. made = 1 => joined \subseteq {r} /\ own = {r}
    BY <2>2, SMT DEF FseqInv
  <2>6. Q!AssertsHold'
    BY <2>2, <2>4, <2>5, Zenon DEF FseqInv, Q!AssertsHold
  <2>7. made' = 1 => \A q \in Regions : shmem'[q].magic => q \in own'
    BY <2>2, <2>5, Zenon DEF FseqInv
  <2> QED
    BY <2>2, <2>3, <2>4, <2>5, <2>6, <2>7, SMT DEF FseqInv
<1>5. ASSUME NEW r \in Regions, Q!Leave(r) PROVE FseqInv'
  <2>1. /\ joined' = joined \ {r} /\ got' = [r |-> r, what |-> "left", v |-> Hidden]
        /\ shmem' = [shmem EXCEPT ![Hidden].magic = FALSE]
        /\ r \in joined /\ UNCHANGED <<g_ul_ptr, wrote, own, made>>
    BY <1>5, Zenon DEF Q!Leave
  <2>2. /\ shmem' \in [Regions -> [magic : BOOLEAN, seq0 : Int]]
        /\ ~shmem'[Hidden].magic
        /\ \A q \in Regions : q # Hidden => shmem'[q] = shmem[q]
    <3>1. Hidden \in Regions /\ shmem \in [Regions -> [magic : BOOLEAN, seq0 : Int]]
      BY Zenon DEF FseqInv, Q!FseqJobsAssumption
    <3>2. /\ \A h \in [magic : BOOLEAN, seq0 : Int] :
               [h EXCEPT !.magic = FALSE] \in [magic : BOOLEAN, seq0 : Int]
          /\ \A h \in [magic : BOOLEAN, seq0 : Int] : [h EXCEPT !.magic = FALSE].magic = FALSE
      <4>1. \A h \in [magic : BOOLEAN, seq0 : Int] :
              [h EXCEPT !.magic = FALSE] \in [magic : BOOLEAN, seq0 : Int]
        BY Zenon
      <4>2. \A h \in [magic : BOOLEAN, seq0 : Int] : [h EXCEPT !.magic = FALSE].magic = FALSE
        BY SMT
      <4> QED
        BY <4>1, <4>2
    <3>3. shmem' = [shmem EXCEPT ![Hidden] = [shmem[Hidden] EXCEPT !.magic = FALSE]]
      BY <2>1, Zenon
    <3> QED
      BY <3>1, <3>2, <3>3, Zenon
  <2>3. made \in Nat /\ made # 0 /\ (made # 1 => made > 1)
    BY <2>1, SMT DEF FseqInv
  <2>4. made = 1 => joined' = {}
    BY <2>1, SMT DEF FseqInv
  <2>5. \A q \in joined' : shmem'[q].magic \/ (q = Hidden /\ made > 1)
    BY <2>1, <2>2, <2>3, <2>4, SMT DEF FseqInv, Q!AssertsHold
  <2>6. got'.v = Hidden
    BY <2>1
  <2>7. Q!AssertsHold'
    BY <2>1, <2>4, <2>5, <2>6, Zenon DEF FseqInv, Q!AssertsHold
  <2>8. \A q \in Regions : shmem'[q].magic => shmem[q].magic
    BY <2>2, Zenon
  <2> QED
    BY <2>1, <2>2, <2>3, <2>4, <2>7, <2>8, SMT DEF FseqInv
<1>6. CASE UNCHANGED Q!vars
  BY <1>6, Zenon DEF Q!vars, FseqInv, Q!AssertsHold
<1> QED
  BY <1>1, <1>2, <1>3, <1>4, <1>5, <1>6, Zenon DEF Q!Next

LEMMA FseqPromise == ASSUME FseqInv PROVE Q!AssertsHold
BY DEF FseqInv

-----------------------------------------------------------------------------
(* FctlCfg *)

\* What the fctl knows of its receivers is what the program added to it.
CfgInv ==
  /\ status \in {"raw", "open", "done"}
  /\ DOMAIN fctl = {"rx_max", "rx_cnt", "in_refill", "cr"}
  /\ status # "raw" =>
       /\ asked \in Nat /\ fctl.rx_max = asked /\ DOMAIN rx = 0 .. asked - 1
       /\ added \in Seq([cr_max : 1 .. LongMax, laddr : Nat])
       /\ fctl.rx_cnt = Len(added) /\ Len(added) <= asked
       /\ \A k \in 0 .. Len(added) - 1 : rx[k] = added[k + 1] /\ rx[k].laddr = k
  /\ G!ThresholdsInOrder

LEMMA MinIsLeast ==
  ASSUME NEW S \in SUBSET Nat, NEW e \in S
  PROVE  G!Min(S) \in S /\ \A k \in S : G!Min(S) <= k
BY HasLeast, Zenon DEF G!Min

LEMMA CfgInit == ASSUME G!Init PROVE CfgInv
<1>1. status = "raw"
  BY Zenon DEF G!Init
<1>2. DOMAIN fctl = {"rx_max", "rx_cnt", "in_refill", "cr"}
  BY SMT DEF G!Init, G!Havoc
<1> QED
  BY <1>1, <1>2, SMT DEF CfgInv, G!ThresholdsInOrder

LEMMA CfgStep ==
  ASSUME G!FctlCfgAssumption, CfgInv, G!Next PROVE CfgInv'
<1>0. RxMaxMax \in Nat /\ LongMax \in Nat \ {0}
  BY SMT DEF G!FctlCfgAssumption
<1>1. ASSUME NEW m \in 1 .. RxMaxMax + 1, G!New(m) PROVE CfgInv'
  <2>1. m % (RxMaxMax + 1) = m
    <3>1. RxMaxMax + 1 \in Nat \ {0} /\ m \in Nat /\ m < RxMaxMax + 1
      BY <1>0, <1>1, SMT DEF G!New
    <3> QED
      BY <3>1, ModSmall
  <2>2. /\ fctl' = [rx_max |-> m, rx_cnt |-> 0, in_refill |-> 0, cr |-> G!Zeros]
        /\ rx' = [k \in 0 .. m - 1 |-> G!Entry]
        /\ status' = "open" /\ asked' = m /\ added' = <<>>
    BY <1>1, <2>1, Zenon DEF G!New
  <2> QED
    BY <2>2, SMT DEF CfgInv, G!ThresholdsInOrder
<1>2. ASSUME NEW cr_max \in 0 .. LongMax + 1, G!RxAdd(cr_max) PROVE CfgInv'
  <2>1. status = "open" /\ status' = "open" /\ asked' = asked
    BY <1>2, Zenon DEF G!RxAdd
  <2>2. CASE cr_max \in 1 .. LongMax /\ fctl.rx_cnt < fctl.rx_max
    <3> DEFINE e == [cr_max |-> cr_max, laddr |-> Len(added)]
    <3>1. /\ rx' = [rx EXCEPT ![fctl.rx_cnt] = e]
          /\ fctl' = [fctl EXCEPT !.rx_cnt = @ + 1]
          /\ added' = Append(added, e)
      BY <1>2, <2>2, Zenon DEF G!RxAdd
    <3>2. /\ asked \in Nat /\ fctl.rx_max = asked /\ DOMAIN rx = 0 .. asked - 1
          /\ added \in Seq([cr_max : 1 .. LongMax, laddr : Nat])
          /\ fctl.rx_cnt = Len(added) /\ Len(added) <= asked
          /\ \A k \in 0 .. Len(added) - 1 : rx[k] = added[k + 1] /\ rx[k].laddr = k
      BY <2>1, SMT DEF CfgInv
    <3>3. Len(added) \in Nat
      BY <3>2
    <3>4. e \in [cr_max : 1 .. LongMax, laddr : Nat]
      BY <2>2, <3>3
    <3>5. /\ added' \in Seq([cr_max : 1 .. LongMax, laddr : Nat])
          /\ Len(added') = Len(added) + 1
          /\ \A k \in 1 .. Len(added) : added'[k] = added[k]
          /\ added'[Len(added) + 1] = e
      BY <3>1, <3>2, <3>4, Appended
    <3>6. /\ DOMAIN fctl' = {"rx_max", "rx_cnt", "in_refill", "cr"}
          /\ fctl'.rx_cnt = Len(added') /\ fctl'.rx_max = asked /\ fctl'.cr = fctl.cr
      BY <3>1, <3>2, <3>3, <3>5, SMT DEF CfgInv
    <3>7. DOMAIN rx' = 0 .. asked' - 1 /\ Len(added') <= asked'
      BY <2>1, <2>2, <3>1, <3>2, <3>3, <3>5, SMT
    <3>8. ASSUME NEW k \in 0 .. Len(added') - 1
          PROVE  rx'[k] = added'[k + 1] /\ rx'[k].laddr = k
      <4>1. CASE k = Len(added)
        <5>1. rx'[k] = e
          BY <2>2, <3>1, <3>2, <3>3, <4>1, SMT
        <5>2. e.laddr = k /\ added'[k + 1] = e
          BY <3>5, <4>1, Zenon
        <5> QED
          BY <5>1, <5>2, Zenon
      <4>2. CASE k # Len(added)
        <5>1. k \in 0 .. Len(added) - 1 /\ k + 1 \in 1 .. Len(added)
          BY <3>3, <3>5, <4>2, SMT
        <5>2. rx'[k] = rx[k]
          BY <3>1, <3>2, <3>3, <5>1, SMT
        <5> QED
          BY <3>2, <3>5, <5>1, <5>2, Zenon
      <4> QED
        BY <4>1, <4>2
    <3>9. G!ThresholdsInOrder'
      BY <2>1, <3>6, SMT DEF CfgInv, G!ThresholdsInOrder
    <3> HIDE DEF e
    <3> QED
      BY <2>1, <3>2, <3>5, <3>6, <3>7, <3>8, <3>9, SMT DEF CfgInv
  <2>3. CASE ~(cr_max \in 1 .. LongMax /\ fctl.rx_cnt < fctl.rx_max)
    <3>1. UNCHANGED <<rx, fctl, added>>
      BY <1>2, <2>3, Zenon DEF G!RxAdd
    <3> QED
      BY <2>1, <3>1, SMT DEF CfgInv, G!ThresholdsInOrder
  <2> QED
    BY <2>2, <2>3
<1>3. ASSUME NEW b \in 0 .. LongMax, NEW m \in 0 .. LongMax,
             NEW s \in 0 .. LongMax, NEW f \in 0 .. LongMax, G!CfgDone(b, m, s, f)
      PROVE  CfgInv'
  <2> DEFINE maxes == {LongMax} \cup {rx[k].cr_max : k \in G!Receivers}
             burst_max == G!Min(maxes)
  <2>1. status = "open" /\ status' = "done" /\ UNCHANGED <<rx, asked, added>>
    BY <1>3, Zenon DEF G!CfgDone
  <2>2. PICK mm, ss, ff :
          /\ b \in 1 .. burst_max /\ mm \in b .. LongMax /\ ss \in b .. mm /\ ff \in b .. ss
          /\ fctl' = [fctl EXCEPT !.cr = [cr_burst |-> b, cr_max |-> mm,
                                          cr_resume |-> ss, cr_refill |-> ff]]
    BY <1>3, Zenon DEF G!CfgDone
  <2>3. /\ Len(added) \in Nat /\ G!Receivers = 0 .. Len(added) - 1
        /\ \A k \in G!Receivers : k + 1 \in 1 .. Len(added) /\ rx[k] = added[k + 1]
        /\ \A k \in 1 .. Len(added) : added[k] \in [cr_max : 1 .. LongMax, laddr : Nat]
    <3>1. /\ added \in Seq([cr_max : 1 .. LongMax, laddr : Nat])
          /\ fctl.rx_cnt = Len(added)
          /\ \A k \in 0 .. Len(added) - 1 : rx[k] = added[k + 1]
      BY <2>1, SMT DEF CfgInv
    <3>2. G!Receivers = 0 .. Len(added) - 1
      BY <3>1, Zenon DEF G!Receivers
    <3>3. /\ Len(added) \in Nat
          /\ \A k \in 1 .. Len(added) : added[k] \in [cr_max : 1 .. LongMax, laddr : Nat]
      BY <3>1, Elements
    <3>4. \A k \in 0 .. Len(added) - 1 : k + 1 \in 1 .. Len(added)
      BY <3>3, SMT
    <3> QED
      BY <3>1, <3>2, <3>3, <3>4, Zenon
  <2>4. \A k \in G!Receivers : rx[k].cr_max \in 1 .. LongMax
    BY <2>3, SMT
  <2>5. maxes \in SUBSET Nat /\ LongMax \in maxes
    BY <1>0, <2>4, SMT
  <2>6. burst_max \in Nat /\ \A k \in maxes : burst_max <= k
    BY <2>5, MinIsLeast, Zenon
  <2>7. \A k \in G!Receivers : rx[k].cr_max >= b
    <3>1. \A k \in G!Receivers : burst_max <= rx[k].cr_max
      BY <2>6, Zenon
    <3> HIDE DEF burst_max
    <3> QED
      BY <2>2, <2>4, <2>6, <3>1, SMT
  <2>8. /\ DOMAIN fctl' = {"rx_max", "rx_cnt", "in_refill", "cr"}
        /\ fctl'.rx_cnt = fctl.rx_cnt /\ fctl'.rx_max = fctl.rx_max
        /\ fctl'.cr = [cr_burst |-> b, cr_max |-> mm, cr_resume |-> ss, cr_refill |-> ff]
    BY <2>2, SMT DEF CfgInv
  <2>9. 1 <= b /\ b <= ss /\ 1 <= ff /\ ff <= ss /\ ss <= mm /\ mm <= LongMax
    <3> HIDE DEF burst_max
    <3> QED
      BY <1>0, <2>2, <2>6, SMT
  <2>10. G!Receivers' = G!Receivers /\ \A k : G!RxCrMax(k)' = rx[k].cr_max
    BY <2>1, <2>8, Zenon DEF G!Receivers, G!RxCrMax
  <2>11. G!ThresholdsInOrder'
    BY <2>1, <2>7, <2>8, <2>9, <2>10, SMT DEF G!ThresholdsInOrder
  <2> QED
    BY <2>1, <2>8, <2>11, SMT DEF CfgInv
<1>4. CASE G!Delete
  BY <1>4, SMT DEF G!Delete, CfgInv, G!ThresholdsInOrder
<1>5. CASE UNCHANGED G!vars
  BY <1>5, SMT DEF G!vars, CfgInv, G!ThresholdsInOrder, G!Receivers, G!RxCrMax
<1> QED
  BY <1>1, <1>2, <1>3, <1>4, <1>5, Zenon DEF G!Next

LEMMA CfgPromise ==
  ASSUME CfgInv PROVE G!ReceiversAreAdded /\ G!RoomForAll /\ G!ThresholdsInOrder
BY SMTT(30) DEF CfgInv, G!ReceiversAreAdded, G!RoomForAll, G!Receivers, G!RxLaddr, G!RxCrMax

-----------------------------------------------------------------------------
(* CacheJobs *)

\* A harness makes its cache first, then joins it, and deletes it last.
LEMMA HarnessShape ==
  ASSUME NEW prog \in C!Programs
  PROVE  /\ prog.kind \in {"mcache", "dcache", "tcache"}
         /\ Len(prog.ops) \in 4 .. 9
         /\ \A k \in 1 .. Len(prog.ops) :
              /\ prog.ops[k] = "new" <=> k = 1
              /\ prog.ops[k] = "join" <=> k = 2
              /\ prog.ops[k] = "delete" <=> k = Len(prog.ops)
              /\ prog.ops[k] \in {"publish", "query"} => prog.kind = "mcache"
              /\ prog.ops[k] \in {"map_query", "insert"} => prog.kind = "tcache"
<1> DEFINE Shape(pr) ==
      /\ pr.kind \in {"mcache", "dcache", "tcache"}
      /\ Len(pr.ops) \in 4 .. 9
      /\ \A k \in 1 .. Len(pr.ops) :
           /\ pr.ops[k] = "new" <=> k = 1
           /\ pr.ops[k] = "join" <=> k = 2
           /\ pr.ops[k] = "delete" <=> k = Len(pr.ops)
           /\ pr.ops[k] \in {"publish", "query"} => pr.kind = "mcache"
           /\ pr.ops[k] \in {"map_query", "insert"} => pr.kind = "tcache"
<1>1. Shape(C!McacheInitDelete)
  BY SMT DEF C!McacheInitDelete
<1>2. Shape(C!McachePublish)
  BY SMT DEF C!McachePublish
<1>3. Shape(C!McacheQuery)
  BY SMT DEF C!McacheQuery
<1>4. Shape(C!DcacheInitDelete)
  BY SMT DEF C!DcacheInitDelete
<1>5. Shape(C!DcacheCompact)
  BY SMT DEF C!DcacheCompact
<1>6. Shape(C!TcacheInitDelete)
  BY SMT DEF C!TcacheInitDelete
<1>7. Shape(C!TcacheInsert)
  BY SMT DEF C!TcacheInsert
<1>8. Shape(C!TcacheQuery)
  BY SMT DEF C!TcacheQuery
<1> HIDE DEF Shape
<1>9. Shape(prog)
  BY <1>1, <1>2, <1>3, <1>4, <1>5, <1>6, <1>7, <1>8, Zenon DEF C!Programs
<1> QED
  BY <1>9 DEF Shape

IsHeader(hd) ==
  /\ DOMAIN hd = {"magic", "size1", "size2", "seq0"}
  /\ hd.size1 \in Nat

\* The harness is at one of its operations, has ended or is cut off.
Placed(c) ==
  job[c] \in C!Programs /\ jobpc[c] \in {-1, 0} \cup 1 .. Len(job[c].ops)

\* A header that was made has the sizes of the blocks, except a tcache that
\* was asked for without a map.
Sized(c) ==
  /\ IsHeader(hdr[c])
  /\ jobpc[c] > 1 =>
       /\ hdr[c].size1 = block[c][1] /\ hdr[c].size1 <= MaxSize
       /\ block[c][2] \in 0 .. MaxSize
       /\ C!NoMap(c) \/ hdr[c].size2 = block[c][2]
       /\ job[c].kind = "mcache" => hdr[c].size1 > 0

\* A joined cache finds its own header, or that of one joined after it.
Finds(c) ==
  jobpc[c] > 2 =>
    C!HdrOf(c) \in Caches /\ (C!HdrOf(c) = c \/ <<c, C!HdrOf(c)>> \in overlaps)

Whole(c) ==
  C!Alone(c) => /\ jobpc[c] \in {0, 1} => hdr[c].magic = FALSE
                /\ jobpc[c] > 1 => hdr[c].magic = TRUE

\* What the assertion op of a cache may fail for.
Excused(c, op) ==
  /\ op \in {"size1", "seq0", "seq_laddr", "app_laddr"} => C!Overtaken(c)
  /\ op = "size2" => C!Overtaken(c) \/ C!NoMap(c)
  /\ op # "line"
  /\ op \in {"map_query", "insert"} => C!NoMap(c)

FailuresExcused(c) ==
  \A op : <<c, op>> \in failed => Excused(c, op) /\ jobpc[c] # 1

CacheInv(c) ==
  Placed(c) /\ Sized(c) /\ Finds(c) /\ Whole(c) /\ FailuresExcused(c)

CachesInv ==
  /\ DOMAIN hdr = Caches /\ DOMAIN block = Caches /\ DOMAIN jobpc = Caches
  /\ DOMAIN glb = {"mcache", "dcache"}
  /\ \A c \in Caches : CacheInv(c)

LEMMA CachesInit == ASSUME C!Init PROVE CachesInv
<1>1. ASSUME NEW c \in Caches PROVE CacheInv(c)
  <2>1. job[c] \in C!Programs /\ hdr[c] = C!Blank /\ jobpc[c] = 1 /\ failed = {}
    BY SMT DEF C!Init
  <2>2. Len(job[c].ops) \in 4 .. 9
    BY <2>1, HarnessShape
  <2>3. IsHeader(hdr[c]) /\ hdr[c].magic = FALSE
    <3>1. hdr[c] = [magic |-> FALSE, size1 |-> 0, size2 |-> 0, seq0 |-> 0]
      BY <2>1, Zenon DEF C!Blank
    <3> QED
      BY <3>1, SMT DEF IsHeader
  <2>4. jobpc[c] \in {-1, 0} \cup 1 .. Len(job[c].ops) /\ ~(jobpc[c] > 1) /\ ~(jobpc[c] > 2)
    <3>1. \A l \in 4 .. 9 : 1 \in {-1, 0} \cup 1 .. l /\ ~(1 > 1) /\ ~(1 > 2)
      BY SMT
    <3> QED
      BY <2>1, <2>2, <3>1, Zenon
  <2>5. Placed(c) /\ Sized(c) /\ Finds(c)
    BY <2>1, <2>3, <2>4, Zenon DEF Placed, Sized, Finds
  <2>6. Whole(c) /\ FailuresExcused(c)
    BY <2>1, <2>3, <2>4, Zenon DEF Whole, FailuresExcused
  <2> QED
    BY <2>5, <2>6, Zenon DEF CacheInv
<1>2. /\ DOMAIN hdr = Caches /\ DOMAIN block = Caches /\ DOMAIN jobpc = Caches
      /\ DOMAIN glb = {"mcache", "dcache"}
  BY Zenon DEF C!Init
<1> QED
  BY <1>1, <1>2, Zenon DEF CachesInv

\* Where a harness is when it comes to an operation.
LEMMA AtWhere ==
  ASSUME CachesInv, NEW c \in Caches, NEW op, C!At(c, op)
  PROVE  /\ job[c].kind \in {"mcache", "dcache", "tcache"}
         /\ Len(job[c].ops) \in 4 .. 9 /\ jobpc[c] \in 1 .. Len(job[c].ops)
         /\ op = "new" => jobpc[c] = 1
         /\ op = "join" => jobpc[c] = 2
         /\ op = "delete" => jobpc[c] = Len(job[c].ops)
         /\ op \notin {"new", "join", "delete"} => jobpc[c] \in 3 .. Len(job[c].ops) - 1
         /\ op \in {"publish", "query"} => job[c].kind = "mcache"
         /\ op \in {"map_query", "insert"} => job[c].kind = "tcache"
<1>1. jobpc[c] > 0 /\ job[c].ops[jobpc[c]] = op
  BY Zenon DEF C!At
<1>2. job[c] \in C!Programs /\ jobpc[c] \in {-1, 0} \cup 1 .. Len(job[c].ops)
  BY Zenon DEF CachesInv, CacheInv, Placed
<1>3. /\ job[c].kind \in {"mcache", "dcache", "tcache"} /\ Len(job[c].ops) \in 4 .. 9
      /\ \A k \in 1 .. Len(job[c].ops) :
           /\ job[c].ops[k] = "new" <=> k = 1
           /\ job[c].ops[k] = "join" <=> k = 2
           /\ job[c].ops[k] = "delete" <=> k = Len(job[c].ops)
           /\ job[c].ops[k] \in {"publish", "query"} => job[c].kind = "mcache"
           /\ job[c].ops[k] \in {"map_query", "insert"} => job[c].kind = "tcache"
  BY <1>2, HarnessShape
<1>4. jobpc[c] \in 1 .. Len(job[c].ops)
  BY <1>1, <1>2, <1>3, SMT
<1>5. op \notin {"new", "join", "delete"} =>
        jobpc[c] # 1 /\ jobpc[c] # 2 /\ jobpc[c] # Len(job[c].ops)
  BY <1>1, <1>3, <1>4, Zenon
<1>6. op \notin {"new", "join", "delete"} => jobpc[c] \in 3 .. Len(job[c].ops) - 1
  BY <1>3, <1>4, <1>5, SMT
<1> QED
  BY <1>1, <1>3, <1>4, <1>6, Zenon

\* An overlap stays one.
LEMMA OverlapsStay ==
  ASSUME overlaps \subseteq overlaps', UNCHANGED job, NEW c \in Caches,
         block'[c] = block[c]
  PROVE  /\ C!Alone(c)' => C!Alone(c)
         /\ \A op : Excused(c, op) => Excused(c, op)'
<1>1. C!Alone(c)' => C!Alone(c)
  BY Zenon DEF C!Alone
<1>2. C!Overtaken(c) => C!Overtaken(c)'
  BY Zenon DEF C!Overtaken
<1>3. C!NoMap(c)' <=> C!NoMap(c)
  BY Zenon DEF C!NoMap
<1> QED
  BY <1>1, <1>2, <1>3, Zenon DEF Excused

\* A cache that a step of another harness leaves alone.
LEMMA NotMoved ==
  ASSUME NEW d \in Caches, CacheInv(d), overlaps \subseteq overlaps', UNCHANGED job,
         block'[d] = block[d], jobpc'[d] = jobpc[d],
         hdr'[d] = hdr[d], Finds(d)',
         \A op : <<d, op>> \in failed' => <<d, op>> \in failed
  PROVE  CacheInv(d)'
<1>1. C!NoMap(d)' <=> C!NoMap(d)
  BY Zenon DEF C!NoMap
<1>2. Placed(d)' /\ Sized(d)'
  BY <1>1, Zenon DEF CacheInv, Placed, Sized
<1>3. Whole(d)' /\ FailuresExcused(d)'
  BY OverlapsStay, Zenon DEF CacheInv, Whole, FailuresExcused
<1> QED
  BY <1>2, <1>3, Zenon DEF CacheInv

\* An operation between join and delete: what it finds is noted, with an
\* excuse if it is no good, and the harness goes on or is cut off.
LEMMA GoesOn ==
  ASSUME CachesInv, NEW c \in Caches, NEW op, C!At(c, op), NEW asked_op,
         op \notin {"new", "join", "delete"},
         C!Step(c) \/ C!Cut(c), UNCHANGED <<hdr, block, job, glb, overlaps>>,
         failed' = failed \/ (failed' = failed \cup {<<c, asked_op>>} /\ Excused(c, asked_op))
  PROVE  CachesInv'
<1>1. Len(job[c].ops) \in 4 .. 9 /\ jobpc[c] \in 3 .. Len(job[c].ops) - 1
  BY AtWhere
<1>2. DOMAIN jobpc = Caches /\ \A d \in Caches : CacheInv(d)
  BY Zenon DEF CachesInv
<1>3. PICK now \in {-1, jobpc[c] + 1} : jobpc' = [jobpc EXCEPT ![c] = now]
  <2>1. jobpc[c] # Len(job[c].ops)
    BY <1>1, SMT
  <2> QED
    BY <2>1, Zenon DEF C!Step, C!Cut
<1>4. /\ jobpc'[c] = now /\ DOMAIN jobpc' = Caches
      /\ \A d \in Caches \ {c} : jobpc'[d] = jobpc[d]
  BY <1>2, <1>3, Zenon
<1>5. /\ now \in {-1, 0} \cup 1 .. Len(job[c].ops) /\ now \notin {0, 1}
      /\ jobpc[c] > 1 /\ jobpc[c] > 2
  BY <1>1, SMT
<1>6. CacheInv(c)'
  <2>1. C!HdrOf(c)' = C!HdrOf(c) /\ (C!NoMap(c)' <=> C!NoMap(c)) /\ (C!Alone(c)' <=> C!Alone(c))
    BY Zenon DEF C!HdrOf, C!NoMap, C!Alone
  <2>2. Placed(c)' /\ Sized(c)' /\ Finds(c)'
    BY <1>2, <1>4, <1>5, <2>1, Zenon DEF CacheInv, Placed, Sized, Finds
  <2>3. Whole(c)'
    BY <1>2, <1>4, <1>5, <2>1, Zenon DEF CacheInv, Whole
  <2>4. FailuresExcused(c)'
    <3>1. \A o : <<c, o>> \in failed' => Excused(c, o)
      <4>1. \A o : <<c, o>> \in failed' => <<c, o>> \in failed \/ o = asked_op
        BY SMT
      <4>2. \A o : <<c, o>> \in failed => Excused(c, o)
        BY <1>2, Zenon DEF CacheInv, FailuresExcused
      <4> QED
        BY <4>1, <4>2, Zenon
    <3>2. \A o : Excused(c, o) => Excused(c, o)'
      BY OverlapsStay, Zenon
    <3>3. now # 1
      BY <1>5, Zenon
    <3> QED
      BY <1>4, <3>1, <3>2, <3>3, Zenon DEF FailuresExcused
  <2> QED
    BY <2>2, <2>3, <2>4, Zenon DEF CacheInv
<1>7. ASSUME NEW d \in Caches, d # c PROVE CacheInv(d)'
  <2>1. C!HdrOf(d)' = C!HdrOf(d)
    BY Zenon DEF C!HdrOf
  <2>2. Finds(d)'
    BY <1>2, <1>4, <1>7, <2>1, Zenon DEF CacheInv, Finds
  <2>3. \A o : <<d, o>> \in failed' => <<d, o>> \in failed
    BY <1>7, SMT
  <2> QED
    BY <1>2, <1>4, <1>7, <2>2, <2>3, NotMoved, Zenon
<1> QED
  BY <1>4, <1>6, <1>7, Zenon DEF CachesInv

\* What is known of a joined cache.
LEMMA FindsOwn ==
  ASSUME CachesInv, NEW c \in Caches, NEW op, C!At(c, op), op \notin {"new", "join"}
  PROVE  /\ C!HdrOf(c) \in Caches
         /\ C!HdrOf(c) = c \/ <<c, C!HdrOf(c)>> \in overlaps
         /\ ~C!Overtaken(c) => C!HdrOf(c) = c /\ C!Found(c) = hdr[c]
         /\ hdr[c].size1 = block[c][1] /\ hdr[c].size1 \in Nat
         /\ hdr[c].size1 <= MaxSize /\ block[c][2] \in 0 .. MaxSize
         /\ C!NoMap(c) \/ hdr[c].size2 = block[c][2]
         /\ job[c].kind = "mcache" => hdr[c].size1 > 0
<1>1. op = "delete" \/ op \notin {"new", "join", "delete"}
  BY Zenon
<1>2. /\ Len(job[c].ops) \in 4 .. 9
      /\ op = "delete" => jobpc[c] = Len(job[c].ops)
      /\ op \notin {"new", "join", "delete"} => jobpc[c] \in 3 .. Len(job[c].ops) - 1
  BY AtWhere
<1>3. jobpc[c] > 2 /\ jobpc[c] > 1
  <2>1. \/ jobpc[c] = Len(job[c].ops)
        \/ jobpc[c] \in 3 .. Len(job[c].ops) - 1
    BY <1>1, <1>2, Zenon
  <2>2. \A l \in 4 .. 9, q \in Int : q = l \/ q \in 3 .. l - 1 => q > 2 /\ q > 1
    BY SMT
  <2>3. jobpc[c] \in Int
    BY <1>2, <2>1, SMT
  <2> QED
    BY <1>2, <2>1, <2>2, <2>3, Zenon
<1>4. CacheInv(c)
  BY Zenon DEF CachesInv
<1>5. ~C!Overtaken(c) => C!HdrOf(c) = c /\ C!Found(c) = hdr[c]
  BY <1>3, <1>4, Zenon DEF CacheInv, Finds, C!Overtaken, C!Found
<1> QED
  BY <1>3, <1>4, <1>5, Zenon DEF CacheInv, Sized, Finds, IsHeader

LEMMA NewStep ==
  ASSUME C!CacheJobsAssumption, CachesInv, NEW c \in Caches, C!New(c)
  PROVE  CachesInv'
<1>0. /\ DOMAIN hdr = Caches /\ DOMAIN block = Caches /\ DOMAIN jobpc = Caches
      /\ \A d \in Caches : CacheInv(d)
  BY Zenon DEF CachesInv
<1>1. C!At(c, "new") /\ UNCHANGED <<job, glb, failed, overlaps>>
  BY Zenon DEF C!New
<1>2. /\ job[c].kind \in {"mcache", "dcache", "tcache"}
      /\ Len(job[c].ops) \in 4 .. 9 /\ jobpc[c] = 1
  BY <1>1, AtWhere, Zenon
<1>3. PICK n1 \in Sizes1, n2 \in Sizes2, n0 \in Sizes1 \cup {0} :
        /\ C!Footprint(job[c].kind, n1, n2)
        /\ IF job[c].kind = "mcache" THEN n0 < n1 ELSE n0 = 0
        /\ block' = [block EXCEPT ![c] = <<n1, n2>>]
        /\ \/ /\ hdr' = [hdr EXCEPT ![c] =
                [magic |-> TRUE, size1 |-> n1, seq0 |-> n0,
                 size2 |-> IF job[c].kind = "tcache" /\ n2 = 0
                             THEN C!MapCntDefault(n1) ELSE n2]]
              /\ C!Step(c)
           \/ UNCHANGED hdr /\ C!Exit(c)
  BY Zenon DEF C!New
<1>4. n1 \in Nat /\ n2 \in Nat /\ n0 \in Nat /\ MaxSize \in Nat
  BY SMT DEF C!CacheJobsAssumption
<1>5. n1 <= MaxSize /\ n2 <= MaxSize
  BY <1>2, <1>3, Zenon DEF C!Footprint, C!McacheFootprint, C!DcacheFootprint, C!TcacheFootprint
<1>6. /\ block'[c] = <<n1, n2>> /\ DOMAIN block' = Caches
      /\ \A d \in Caches \ {c} : block'[d] = block[d]
  BY <1>0, <1>3, Zenon
<1>7. \A d \in Caches : C!HdrOf(d)' = C!HdrOf(d)
  BY <1>1, Zenon DEF C!HdrOf
<1>8. ASSUME \A d \in Caches \ {c} : hdr'[d] = hdr[d] /\ jobpc'[d] = jobpc[d],
             DOMAIN hdr' = Caches, DOMAIN jobpc' = Caches,
             Placed(c)' /\ Sized(c)' /\ Finds(c)' /\ Whole(c)'
      PROVE  CachesInv'
  <2>1. ASSUME NEW d \in Caches, d # c PROVE CacheInv(d)'
    <3>1. Finds(d)'
      BY <1>0, <1>1, <1>7, <1>8, <2>1, Zenon DEF CacheInv, Finds
    <3> QED
      BY <1>0, <1>1, <1>6, <1>8, <2>1, <3>1, NotMoved, Zenon
  <2>2. FailuresExcused(c)'
    BY <1>0, <1>1, <1>2, Zenon DEF CacheInv, FailuresExcused
  <2>3. CacheInv(c)'
    BY <1>8, <2>2, Zenon DEF CacheInv
  <2>4. DOMAIN glb' = {"mcache", "dcache"}
    BY <1>1, Zenon DEF CachesInv
  <2> QED
    BY <1>6, <1>8, <2>1, <2>3, <2>4, Zenon DEF CachesInv
<1>9. CASE UNCHANGED hdr /\ C!Exit(c)
  <2>1. jobpc'[c] = 0 /\ DOMAIN jobpc' = Caches
        /\ \A d \in Caches \ {c} : jobpc'[d] = jobpc[d]
    BY <1>0, <1>9, Zenon DEF C!Exit
  <2>2. ~(0 > 1) /\ ~(0 > 2)
    BY SMT
  <2>3. Placed(c)' /\ Sized(c)' /\ Finds(c)'
    BY <1>0, <1>1, <1>9, <2>1, <2>2, Zenon DEF CacheInv, Placed, Sized, Finds
  <2>4. Whole(c)'
    BY <1>0, <1>1, <1>2, <1>9, <2>1, <2>2, Zenon DEF CacheInv, Whole, C!Alone
  <2> QED
    BY <1>0, <1>8, <1>9, <2>1, <2>3, <2>4, Zenon
<1>10. CASE ~(UNCHANGED hdr /\ C!Exit(c))
  <2>1. PICK size2 :
          /\ (job[c].kind = "tcache" /\ n2 = 0) \/ size2 = n2
          /\ hdr' = [hdr EXCEPT ![c] =
               [magic |-> TRUE, size1 |-> n1, seq0 |-> n0, size2 |-> size2]]
    BY <1>3, <1>10, Zenon
  <2>2. PICK made_hdr :
          /\ made_hdr = [magic |-> TRUE, size1 |-> n1, seq0 |-> n0, size2 |-> size2]
          /\ hdr' = [hdr EXCEPT ![c] = made_hdr]
    BY <2>1, Zenon
  <2>3. hdr'[c] = made_hdr /\ DOMAIN hdr' = Caches
        /\ \A d \in Caches \ {c} : hdr'[d] = hdr[d]
    BY <1>0, <2>2, Zenon
  <2>4. jobpc' = [jobpc EXCEPT ![c] = 2]
    <3>1. 1 # Len(job[c].ops) /\ 1 + 1 = 2
      BY <1>2, SMT
    <3> QED
      BY <1>2, <1>3, <1>10, <3>1, Zenon DEF C!Step
  <2>5. jobpc'[c] = 2 /\ DOMAIN jobpc' = Caches
        /\ \A d \in Caches \ {c} : jobpc'[d] = jobpc[d]
    BY <1>0, <2>4, Zenon
  <2>6. /\ made_hdr.magic = TRUE /\ made_hdr.size1 = n1 /\ made_hdr.size2 = size2
        /\ IsHeader(made_hdr)
    BY <1>4, <2>2, SMT DEF IsHeader
  <2>7. block'[c][1] = n1 /\ block'[c][2] = n2 /\ n2 \in 0 .. MaxSize
    BY <1>4, <1>5, <1>6, SMT
  <2>8. C!NoMap(c)' \/ size2 = block'[c][2]
    BY <1>1, <2>1, <2>7, Zenon DEF C!NoMap
  <2>9. job[c].kind = "mcache" => n1 > 0
    <3>1. job[c].kind = "mcache" => n0 < n1
      BY <1>3, Zenon
    <3>2. n0 < n1 => n1 > 0
      BY <1>4, SMT
    <3> QED
      BY <3>1, <3>2, Zenon
  <2>10. 2 \in {-1, 0} \cup 1 .. Len(job[c].ops) /\ 2 \notin {0, 1} /\ ~(2 > 2)
    <3>1. \A l \in 4 .. 9 : 2 \in {-1, 0} \cup 1 .. l /\ 2 \notin {0, 1} /\ ~(2 > 2)
      BY SMT
    <3> QED
      BY <1>2, <3>1, Zenon
  <2>11. Placed(c)' /\ Finds(c)' /\ Whole(c)'
    BY <1>0, <1>1, <2>3, <2>5, <2>6, <2>10, Zenon DEF CacheInv, Placed, Finds, Whole
  <2>12. Sized(c)'
    BY <1>1, <1>5, <2>3, <2>6, <2>7, <2>8, <2>9, Zenon DEF Sized
  <2> QED
    BY <1>8, <2>3, <2>5, <2>11, <2>12, Zenon
<1> QED
  BY <1>9, <1>10

LEMMA JoinStep ==
  ASSUME CachesInv, NEW c \in Caches,
         C!JoinMcache(c) \/ C!JoinDcache(c) \/ C!JoinTcache(c)
  PROVE  CachesInv'
<1>0. /\ DOMAIN jobpc = Caches /\ DOMAIN glb = {"mcache", "dcache"}
      /\ \A d \in Caches : CacheInv(d)
  BY Zenon DEF CachesInv
<1>1. C!At(c, "join") /\ C!Step(c) /\ UNCHANGED <<hdr, block, job, failed>>
  BY Zenon DEF C!JoinMcache, C!JoinDcache, C!JoinTcache
<1>2. Len(job[c].ops) \in 4 .. 9 /\ jobpc[c] = 2
  BY <1>1, AtWhere, Zenon
<1>3. jobpc' = [jobpc EXCEPT ![c] = 3]
  <2>1. 2 # Len(job[c].ops) /\ 2 + 1 = 3
    BY <1>2, SMT
  <2> QED
    BY <1>1, <1>2, <2>1, Zenon DEF C!Step
<1>4. jobpc'[c] = 3 /\ DOMAIN jobpc' = Caches
      /\ \A d \in Caches \ {c} : jobpc'[d] = jobpc[d]
  BY <1>0, <1>3, Zenon
<1>5. 3 \in {-1, 0} \cup 1 .. Len(job[c].ops) /\ 3 \notin {0, 1} /\ 2 > 1
  <2>1. \A l \in 4 .. 9 : 3 \in {-1, 0} \cup 1 .. l /\ 3 \notin {0, 1} /\ 2 > 1
    BY SMT
  <2> QED
    BY <1>2, <2>1, Zenon
\* What the global and the overlaps are, whatever the kind.
<1>6. /\ DOMAIN glb' = {"mcache", "dcache"} /\ overlaps \subseteq overlaps'
      /\ C!HdrOf(c)' = c
      /\ \A d \in Caches \ {c} : jobpc[d] > 2 =>
           C!HdrOf(d)' = C!HdrOf(d) \/ (C!HdrOf(d)' = c /\ <<d, c>> \in overlaps')
  <2>0. "mcache" # "tcache" /\ "dcache" # "tcache" /\ "mcache" # "dcache"
    OBVIOUS
  <2>1. CASE C!JoinTcache(c)
    BY <1>0, <1>1, <2>1, Zenon DEF C!JoinTcache, C!HdrOf
  <2>2. ASSUME NEW kind \in {"mcache", "dcache"}, job[c].kind = kind,
               glb' = [glb EXCEPT ![kind] = c],
               overlaps' = overlaps \cup C!Joined(kind) \X {c}
        PROVE  /\ DOMAIN glb' = {"mcache", "dcache"} /\ overlaps \subseteq overlaps'
               /\ C!HdrOf(c)' = c
               /\ \A d \in Caches \ {c} : jobpc[d] > 2 =>
                    C!HdrOf(d)' = C!HdrOf(d) \/ (C!HdrOf(d)' = c /\ <<d, c>> \in overlaps')
    <3>1. DOMAIN glb' = {"mcache", "dcache"} /\ glb'[kind] = c /\ kind # "tcache"
          /\ \A k \in {"mcache", "dcache"} \ {kind} : glb'[k] = glb[k]
      BY <1>0, <2>0, <2>2, Zenon
    <3>2. C!HdrOf(c)' = c
      BY <1>1, <2>2, <3>1, Zenon DEF C!HdrOf
    <3>3. ASSUME NEW d \in Caches \ {c}, jobpc[d] > 2
          PROVE  C!HdrOf(d)' = C!HdrOf(d) \/ (C!HdrOf(d)' = c /\ <<d, c>> \in overlaps')
      <4>1. job[d].kind \in {"mcache", "dcache", "tcache"}
        BY <1>0, HarnessShape, Zenon DEF CacheInv, Placed
      <4>2. CASE job[d].kind # kind
        BY <1>1, <3>1, <4>1, <4>2, Zenon DEF C!HdrOf
      <4>3. CASE job[d].kind = kind
        <5>1. d \in C!Joined(kind)
          BY <3>3, <4>3, Zenon DEF C!Joined
        <5> QED
          BY <1>1, <2>2, <3>1, <4>3, <5>1, Zenon DEF C!HdrOf
      <4> QED
        BY <4>2, <4>3
    <3>4. overlaps \subseteq overlaps'
      BY <2>2, Zenon
    <3> QED
      BY <3>1, <3>2, <3>3, <3>4, Zenon
  <2>3. CASE C!JoinMcache(c)
    BY <2>2, <2>3, Zenon DEF C!JoinMcache
  <2>4. CASE C!JoinDcache(c)
    BY <2>2, <2>4, Zenon DEF C!JoinDcache
  <2> QED
    BY <2>1, <2>3, <2>4
<1>7. CacheInv(c)'
  <2>1. (C!NoMap(c)' <=> C!NoMap(c)) /\ (C!Alone(c)' => C!Alone(c))
        /\ \A o : Excused(c, o) => Excused(c, o)'
    BY <1>1, <1>6, OverlapsStay, Zenon DEF C!NoMap
  <2>2. Placed(c)' /\ Sized(c)' /\ Finds(c)'
    BY <1>0, <1>1, <1>2, <1>4, <1>5, <1>6, <2>1, Zenon DEF CacheInv, Placed, Sized, Finds
  <2>3. Whole(c)'
    BY <1>0, <1>1, <1>2, <1>4, <1>5, <2>1, Zenon DEF CacheInv, Whole
  <2>4. FailuresExcused(c)'
    <3>1. 3 # 1
      BY SMT
    <3> QED
      BY <1>0, <1>1, <1>4, <2>1, <3>1, Zenon DEF CacheInv, FailuresExcused
  <2> QED
    BY <2>2, <2>3, <2>4, Zenon DEF CacheInv
<1>8. ASSUME NEW d \in Caches, d # c PROVE CacheInv(d)'
  <2>1. Finds(d)'
    BY <1>0, <1>4, <1>6, <1>8, Zenon DEF CacheInv, Finds
  <2> QED
    BY <1>0, <1>1, <1>4, <1>6, <1>8, <2>1, NotMoved, Zenon
<1>9. DOMAIN hdr' = Caches /\ DOMAIN block' = Caches
  BY <1>1, Zenon DEF CachesInv
<1> QED
  BY <1>4, <1>6, <1>7, <1>8, <1>9, Zenon DEF CachesInv

LEMMA DeleteStep ==
  ASSUME CachesInv, NEW c \in Caches, C!Delete(c)
  PROVE  CachesInv'
<1>0. /\ DOMAIN jobpc = Caches /\ DOMAIN hdr = Caches
      /\ \A d \in Caches : CacheInv(d)
  BY Zenon DEF CachesInv
<1>1. C!At(c, "delete") /\ C!Step(c) /\ UNCHANGED <<block, job, glb, failed, overlaps>>
  BY Zenon DEF C!Delete
<1>2. PICK e \in Caches : /\ e = C!HdrOf(c)
                          /\ e = c \/ <<c, e>> \in overlaps
                          /\ hdr' = [hdr EXCEPT ![e].magic = FALSE]
  BY <1>1, FindsOwn, Zenon DEF C!Delete
<1>3. /\ DOMAIN hdr' = Caches /\ hdr'[e] = [hdr[e] EXCEPT !.magic = FALSE]
      /\ \A d \in Caches \ {e} : hdr'[d] = hdr[d]
  BY <1>0, <1>2, Zenon
<1>4. jobpc'[c] = 0 /\ DOMAIN jobpc' = Caches
      /\ \A d \in Caches \ {c} : jobpc'[d] = jobpc[d]
  <2>1. jobpc[c] = Len(job[c].ops)
    BY <1>1, AtWhere, Zenon
  <2>2. jobpc' = [jobpc EXCEPT ![c] = 0]
    BY <1>1, <2>1, Zenon DEF C!Step
  <2> QED
    BY <1>0, <2>2, Zenon
<1>5. ~(0 > 1) /\ ~(0 > 2) /\ 0 # 1
  BY SMT
\* The header that is deleted keeps its sizes.
<1>6. \A d \in Caches : IsHeader(hdr'[d]) /\ hdr'[d].size1 = hdr[d].size1
                        /\ hdr'[d].size2 = hdr[d].size2
  <2>1. \A d \in Caches : IsHeader(hdr[d])
    BY <1>0, Zenon DEF CacheInv, Sized
  <2>2. IsHeader(hdr'[e]) /\ hdr'[e].size1 = hdr[e].size1 /\ hdr'[e].size2 = hdr[e].size2
    BY <1>3, <2>1, SMT DEF IsHeader
  <2> QED
    BY <1>3, <2>1, <2>2, Zenon
<1>7. hdr'[e].magic = FALSE
  <2>1. "magic" \in DOMAIN hdr[e]
    BY <1>0, Zenon DEF CacheInv, Sized, IsHeader
  <2> QED
    BY <1>3, <2>1, Zenon
<1>8. ASSUME NEW d \in Caches PROVE CacheInv(d)'
  <2>1. /\ C!HdrOf(d)' = C!HdrOf(d) /\ (C!NoMap(d)' <=> C!NoMap(d))
        /\ (C!Alone(d)' <=> C!Alone(d)) /\ \A o : Excused(d, o) => Excused(d, o)'
    BY <1>1, OverlapsStay, Zenon DEF C!HdrOf, C!NoMap, C!Alone
  <2>2. jobpc'[d] = jobpc[d] \/ (d = c /\ jobpc'[d] = 0)
    BY <1>4, Zenon
  <2>3. Placed(d)' /\ Sized(d)' /\ Finds(d)'
    BY <1>0, <1>1, <1>5, <1>6, <2>1, <2>2, Zenon DEF CacheInv, Placed, Sized, Finds
  <2>4. Whole(d)'
    <3>1. CASE ~C!Alone(d)
      BY <2>1, <3>1, Zenon DEF Whole
    <3>2. CASE C!Alone(d)
      <4>1. d # e \/ d = c
        BY <1>2, <3>2, Zenon DEF C!Alone
      <4>2. d = c => d = e
        BY <1>2, <3>2, Zenon DEF C!Alone
      <4>3. CASE d = c
        BY <1>4, <1>5, <1>7, <4>2, <4>3, Zenon DEF Whole
      <4>4. CASE d # c
        <5>1. hdr'[d] = hdr[d] /\ jobpc'[d] = jobpc[d]
          BY <1>3, <1>4, <4>1, <4>4, Zenon
        <5> QED
          BY <1>0, <2>1, <5>1, Zenon DEF CacheInv, Whole
      <4> QED
        BY <4>3, <4>4
    <3> QED
      BY <3>1, <3>2
  <2>5. FailuresExcused(d)'
    BY <1>0, <1>1, <1>5, <2>1, <2>2, Zenon DEF CacheInv, FailuresExcused
  <2> QED
    BY <2>3, <2>4, <2>5, Zenon DEF CacheInv
<1>9. DOMAIN block' = Caches /\ DOMAIN glb' = {"mcache", "dcache"}
  BY <1>1, Zenon DEF CachesInv
<1> QED
  BY <1>3, <1>4, <1>8, <1>9, Zenon DEF CachesInv

\* A step that changes nothing.
LEMMA CachesSame ==
  ASSUME CachesInv, UNCHANGED <<hdr, block, job, jobpc, glb, failed, overlaps>>
  PROVE  CachesInv'
<1>1. ASSUME NEW d \in Caches PROVE CacheInv(d)'
  <2>1. CacheInv(d) /\ C!HdrOf(d)' = C!HdrOf(d)
    BY Zenon DEF CachesInv, C!HdrOf
  <2>2. Finds(d)'
    BY <2>1, Zenon DEF CacheInv, Finds
  <2> QED
    BY <2>1, <2>2, NotMoved, Zenon
<1> QED
  BY <1>1, Zenon DEF CachesInv

\* A slot of a map that has a block is in it.
LEMMA SlotInMap ==
  ASSUME C!CacheJobsAssumption, NEW size2 \in 1 .. MaxSize,
         NEW tag \in 0 .. 2 * MaxSize + 1
  PROVE  BitAnd(tag, size2 - 1) < size2
<1>1. MaxSize \in Nat
  BY Zenon DEF C!CacheJobsAssumption
<1>2. size2 - 1 \in 0 .. 2 * MaxSize + 1
  BY <1>1, SMT
<1>3. BitAnd(tag, size2 - 1) \in 0 .. size2 - 1
  BY <1>2, Zenon DEF C!CacheJobsAssumption
<1> QED
  BY <1>3, SMT

LEMMA CachesStep ==
  ASSUME C!CacheJobsAssumption, CachesInv, C!Next PROVE CachesInv'
<1>1. ASSUME NEW c \in Caches, C!New(c) PROVE CachesInv'
  BY <1>1, NewStep
<1>2. ASSUME NEW c \in Caches, C!JoinMcache(c) \/ C!JoinDcache(c) \/ C!JoinTcache(c)
      PROVE  CachesInv'
  BY <1>2, JoinStep
<1>3. ASSUME NEW c \in Caches, C!Ask(c) PROVE CachesInv'
  <2>1. PICK op \in {"size1", "size2", "seq0", "seq_laddr", "app_laddr"} :
          /\ C!At(c, op)
          /\ \/ op = "size1" /\ C!Check(c, op, C!Found(c).size1 = block[c][1])
             \/ op = "size2" /\ C!Check(c, op, C!Found(c).size2 = block[c][2])
             \/ op = "seq0" /\ C!Check(c, op, C!Found(c).seq0 = hdr[c].seq0)
             \/ op = "seq_laddr" /\ C!Check(c, op, C!HdrOf(c) = c)
             \/ op = "app_laddr" /\ C!Check(c, op, C!HdrOf(c) = c)
    BY <1>3, Zenon DEF C!Ask
  <2>2. op \notin {"new", "join", "delete"}
    BY <2>1, Zenon
  <2>3. /\ ~C!Overtaken(c) => C!HdrOf(c) = c /\ C!Found(c) = hdr[c]
        /\ hdr[c].size1 = block[c][1]
        /\ C!NoMap(c) \/ hdr[c].size2 = block[c][2]
    BY <2>1, <2>2, FindsOwn, Zenon
  <2>4. failed' = failed \/ (failed' = failed \cup {<<c, op>>} /\ Excused(c, op))
    <3>1. CASE C!Overtaken(c)
      BY <2>1, <3>1, Zenon DEF C!Check, Excused
    <3>2. CASE ~C!Overtaken(c)
      BY <2>1, <2>3, <3>2, Zenon DEF C!Check, Excused
    <3> QED
      BY <3>1, <3>2
  <2>5. C!Step(c) /\ UNCHANGED <<hdr, block, job, glb, overlaps>>
    BY <1>3, Zenon DEF C!Ask
  <2> QED
    BY <2>1, <2>2, <2>4, <2>5, GoesOn, Zenon
<1>4. ASSUME NEW c \in Caches, C!UseLine(c) PROVE CachesInv'
  <2>1. PICK op \in {"publish", "query"} : C!At(c, op)
    BY <1>4, Zenon DEF C!UseLine
  <2>2. C!Step(c) /\ UNCHANGED <<hdr, block, job, glb, overlaps>>
    BY <1>4, Zenon DEF C!UseLine
  <2>3. op \notin {"new", "join", "delete"}
    BY <2>1, Zenon
  <2>4. hdr[c].size1 = block[c][1] /\ hdr[c].size1 \in Nat /\ hdr[c].size1 <= MaxSize
        /\ hdr[c].size1 > 0
    BY <2>1, <2>3, AtWhere, FindsOwn, Zenon
  <2>5. PICK seq \in 0 .. 2 * MaxSize + 1 :
          C!Check(c, "line", C!LineIdx(seq, block[c][1]) < block[c][1])
    BY <1>4, Zenon DEF C!UseLine
  <2>6. block[c][1] \in 1 .. MaxSize
    <3>1. MaxSize \in Nat
      BY Zenon DEF C!CacheJobsAssumption
    <3> QED
      BY <2>4, <3>1, SMT
  <2>7. BitAnd(seq, block[c][1] - 1) < block[c][1]
    BY <2>6, SlotInMap, Zenon
  <2>8. failed' = failed
    BY <2>5, <2>7, Zenon DEF C!LineIdx, C!Check
  <2> QED
    BY <2>1, <2>2, <2>3, <2>8, GoesOn, Zenon
<1>5. ASSUME NEW c \in Caches, C!UseOther(c) PROVE CachesInv'
  <2>1. PICK op \in {"seq_update", "compact"} : C!At(c, op)
    BY <1>5, Zenon DEF C!UseOther
  <2>2. C!Step(c) /\ UNCHANGED <<hdr, block, job, glb, failed, overlaps>>
    BY <1>5, Zenon DEF C!UseOther
  <2>3. op \notin {"new", "join", "delete"}
    BY <2>1, Zenon
  <2> QED
    BY <2>1, <2>2, <2>3, GoesOn, Zenon
<1>6. ASSUME NEW c \in Caches, C!MapQuery(c) PROVE CachesInv'
  <2>1. C!At(c, "map_query") /\ UNCHANGED <<hdr, block, job, glb, overlaps>>
    BY <1>6, Zenon DEF C!MapQuery
  <2>2. /\ block[c][2] \in 0 .. MaxSize /\ job[c].kind = "tcache"
        /\ C!NoMap(c) \/ hdr[c].size2 = block[c][2]
    BY <2>1, AtWhere, FindsOwn, Zenon
  <2>3. (C!Step(c) \/ C!Cut(c)) /\ (failed' # failed =>
          \E tag \in 0 .. 2 * MaxSize + 1 :
            C!Check(c, "map_query", C!MapStart(tag, hdr[c].size2) < block[c][2]))
    BY <1>6, Zenon DEF C!MapQuery
  <2>4. failed' = failed \/ (failed' = failed \cup {<<c, "map_query">>} /\ Excused(c, "map_query"))
    <3>1. CASE C!NoMap(c)
      BY <2>3, <3>1, Zenon DEF C!Check, Excused
    <3>2. CASE ~C!NoMap(c)
      <4>1. hdr[c].size2 = block[c][2] /\ block[c][2] # 0
        BY <2>2, <3>2, Zenon DEF C!NoMap
      <4>2. block[c][2] \in 1 .. MaxSize
        BY <2>2, <4>1, SMT
      <4>3. \A tag \in 0 .. 2 * MaxSize + 1 : C!MapStart(tag, hdr[c].size2) < block[c][2]
        BY <4>1, <4>2, SlotInMap, Zenon DEF C!MapStart
      <4> QED
        BY <2>3, <4>3, Zenon DEF C!Check
    <3> QED
      BY <3>1, <3>2
  <2> QED
    <3>1. "map_query" \notin {"new", "join", "delete"}
      OBVIOUS
    <3>2. C!Step(c) \/ C!Cut(c)
      BY <2>3, Zenon
    <3> QED
      BY <2>1, <2>4, <3>1, <3>2, GoesOn, Zenon
<1>7. ASSUME NEW c \in Caches, C!Insert(c) PROVE CachesInv'
  <2>1. C!At(c, "insert") /\ UNCHANGED <<hdr, block, job, glb, overlaps>>
    BY <1>7, Zenon DEF C!Insert
  <2>2. /\ block[c][2] \in 0 .. MaxSize /\ job[c].kind = "tcache"
        /\ C!NoMap(c) \/ hdr[c].size2 = block[c][2]
        /\ hdr[c].size1 = block[c][1] /\ hdr[c].size1 \in Nat
    BY <2>1, AtWhere, FindsOwn, Zenon
  <2> DEFINE oldest == IF 1 >= hdr[c].size1 THEN 0 ELSE 1
  <2>3. /\ C!Step(c) \/ C!Cut(c)
        /\ failed' # failed => hdr[c].size1 # 0 /\ \E tag \in 0 .. 2 * MaxSize + 1 :
             C!Check(c, "insert", /\ C!MapStart(tag, hdr[c].size2) < block[c][2]
                                  /\ oldest < block[c][1])
    BY <1>7, Zenon DEF C!Insert
  <2>4. hdr[c].size1 # 0 => oldest < block[c][1]
    BY <2>2, SMT
  <2> HIDE DEF oldest
  <2>5. failed' = failed \/ (failed' = failed \cup {<<c, "insert">>} /\ Excused(c, "insert"))
    <3>1. CASE C!NoMap(c)
      BY <2>3, <3>1, Zenon DEF C!Check, Excused
    <3>2. CASE ~C!NoMap(c)
      <4>1. hdr[c].size2 = block[c][2] /\ block[c][2] # 0
        BY <2>2, <3>2, Zenon DEF C!NoMap
      <4>2. block[c][2] \in 1 .. MaxSize
        BY <2>2, <4>1, SMT
      <4>3. \A tag \in 0 .. 2 * MaxSize + 1 : C!MapStart(tag, hdr[c].size2) < block[c][2]
        BY <4>1, <4>2, SlotInMap, Zenon DEF C!MapStart
      <4> QED
        BY <2>3, <2>4, <4>3, Zenon DEF C!Check
    <3> QED
      BY <3>1, <3>2
  <2> QED
    <3>1. "insert" \notin {"new", "join", "delete"}
      OBVIOUS
    <3>2. C!Step(c) \/ C!Cut(c)
      BY <2>3, Zenon
    <3> QED
      BY <2>1, <2>5, <3>1, <3>2, GoesOn, Zenon
<1>8. ASSUME NEW c \in Caches, C!Delete(c) PROVE CachesInv'
  BY <1>8, DeleteStep
<1>9. ASSUME UNCHANGED C!vars PROVE CachesInv'
  BY <1>9, CachesSame DEF C!vars
<1> QED
  BY <1>1, <1>2, <1>3, <1>4, <1>5, <1>6, <1>7, <1>8, <1>9, Zenon DEF C!Next

LEMMA CachesPromise ==
  ASSUME CachesInv PROVE C!AnswersAreOwn /\ C!DeletedWhenDone /\ C!SlotsInBounds
<1>1. ASSUME NEW c \in Caches
      PROVE  /\ \A op : <<c, op>> \in failed => Excused(c, op)
             /\ C!Alone(c) => (hdr[c].magic => jobpc[c] # 0) /\ (jobpc[c] > 1 => hdr[c].magic)
  BY <1>1, Zenon DEF CachesInv, CacheInv, FailuresExcused, Whole
<1>2. C!AnswersAreOwn /\ C!SlotsInBounds
  BY <1>1, Zenon DEF Excused, C!AnswersAreOwn, C!SlotsInBounds
<1> QED
  BY <1>1, <1>2, Zenon DEF C!DeletedWhenDone

\* The jobs of tango, for any number of caches and fseqs at once and every
\* size, 0 included: an accessor answers for its own cache until another of
\* its kind is joined, a cache is deleted by its own harness unless two of a
\* kind overlap, slots are in the blocks; a fseq keeps its number until
\* another is made; a fctl has the receivers added to it and its thresholds in
\* order.
THEOREM JobsUseTheirOwnHolds == Spec => []JobsUseTheirOwn
<1> DEFINE Inv == /\ part = "caches" => CachesInv
                  /\ part = "fseq" => FseqInv
                  /\ part = "fctl" => CfgInv
<1>1. Init => Inv
  BY ProgramsAssumption, CachesInit, FseqInit, CfgInit, Zenon DEF Init
<1>2. Inv /\ [Next]_vars => Inv'
  <2>1. ASSUME Inv, UNCHANGED vars PROVE Inv'
    <3>1. UNCHANGED <<part, cachesVars, fseqVars, fctlVars>>
      BY <2>1, Zenon DEF vars
    <3>2. part = "caches" => CachesInv'
      BY <2>1, <3>1, CachesSame, Zenon DEF cachesVars
    <3>3. part = "fseq" => FseqInv'
      BY <2>1, <3>1, Zenon DEF fseqVars, FseqInv, Q!AssertsHold
    <3>4. part = "fctl" => CfgInv'
      BY <2>1, <3>1, Zenon DEF fctlVars, CfgInv, G!ThresholdsInOrder, G!Receivers, G!RxCrMax
    <3> QED
      BY <3>1, <3>2, <3>3, <3>4, Zenon
  <2>2. ASSUME Inv, Next PROVE Inv'
    <3>1. part = "caches" => CachesInv'
      BY <2>2, ProgramsAssumption, CachesStep, Zenon DEF Next
    <3>2. part = "fseq" => FseqInv'
      BY <2>2, ProgramsAssumption, FseqStep, Zenon DEF Next
    <3>3. part = "fctl" => CfgInv'
      BY <2>2, ProgramsAssumption, CfgStep, Zenon DEF Next
    <3> QED
      BY <2>2, <3>1, <3>2, <3>3, Zenon DEF Next
  <2> QED
    BY <2>1, <2>2
<1>3. Inv => JobsUseTheirOwn
  BY CachesPromise, FseqPromise, CfgPromise, Zenon DEF JobsUseTheirOwn
<1> QED
  BY <1>1, <1>2, <1>3, PTL DEF Spec

-----------------------------------------------------------------------------
(* Alloc *)

Block == [sz : Nat, live : BOOLEAN]

\* The program has a pointer to each live block and to no other.
HoldsLive(bs, h) == bs \in Seq(Block) /\ h = {b \in DOMAIN bs : bs[b].live}

\* What a block is, if f is asked for sz bytes, and the bytes havocked in it.
Given(f, sz, size, havoc) ==
  IF A!Wraps(f, sz) THEN build # "clam" /\ size = 0 /\ (build = "klee" => havoc = 0)
  ELSE size >= sz /\ havoc <= size

AllocInv ==
  /\ HoldsLive(blocks, held)
  /\ last.p # 0 => /\ last.p \in DOMAIN blocks /\ blocks[last.p].live
                   /\ Given(last.f, last.sz, blocks[last.p].sz, last.havoc)

\* What a call may end with when sz bytes are asked for.
Outcome(o, sz) ==
  /\ DOMAIN o = {"sz", "ok", "havoc"} /\ o.ok \in BOOLEAN
  /\ {o.sz, o.havoc} \subseteq Nat
  /\ o.ok => o.sz >= sz /\ o.havoc <= o.sz

\* The same, for a call of f.
Fits(f, sz, o) ==
  /\ DOMAIN o = {"sz", "ok", "havoc"} /\ o.ok \in BOOLEAN
  /\ {o.sz, o.havoc} \subseteq Nat
  /\ o.ok => Given(f, sz, o.sz, o.havoc)

LEMMA SequenceOf ==
  ASSUME NEW S, NEW l \in Nat, NEW s, s = [k \in 1 .. l |-> s[k]],
         \A k \in 1 .. l : s[k] \in S
  PROVE  s \in Seq(S) /\ Len(s) = l
BY SMT

\* A size is rounded up, or wraps.
LEMMA RoundedUp ==
  ASSUME A!AllocAssumption, NEW sz \in AllocSizes
  PROVE  /\ sz \in Nat /\ A!RoundUp(sz) \in Nat
         /\ IF sz > 2 ^ SizeW - 8 THEN A!RoundUp(sz) = 0 ELSE A!RoundUp(sz) >= sz
<1> DEFINE top == 2 ^ SizeW
<1>1. top \in Nat /\ top >= 16 /\ sz \in 0 .. top - 1
  BY SMT DEF A!AllocAssumption
<1>2. A!RoundUp(sz) = ((sz + 7) % top) - (((sz + 7) % top) % 8)
  BY Zenon DEF A!RoundUp
<1> HIDE DEF top
<1>3. CASE sz > top - 8
  <2>1. /\ top \in Nat \ {0} /\ sz \in Nat /\ sz + 7 - top \in Nat /\ sz + 7 - top < 7
        /\ sz + 7 - top < top /\ sz + 7 = (sz + 7 - top) + top
    BY <1>1, <1>3, SMT
  <2>2. (sz + 7) % top = sz + 7 - top
    BY <2>1, <1>1, SMT
  <2>3. (sz + 7 - top) % 8 = sz + 7 - top
    BY <2>1, SMT
  <2>4. A!RoundUp(sz) = 0
    BY <1>2, <2>1, <2>2, <2>3, SMT
  <2> QED
    BY <1>3, <2>1, <2>4, SMT DEF top
<1>4. CASE ~(sz > top - 8)
  <2>1. top \in Nat \ {0} /\ sz \in Nat /\ sz + 7 \in Nat /\ sz + 7 < top
    BY <1>1, <1>4, SMT
  <2>2. (sz + 7) % top = sz + 7
    BY <2>1, ModSmall
  <2>3. A!RoundUp(sz) = (sz + 7) - ((sz + 7) % 8)
    BY <1>2, <2>2, Zenon
  <2>4. (sz + 7) % 8 \in 0 .. 7
    BY <2>1, SMT
  <2>5. A!RoundUp(sz) \in Nat /\ A!RoundUp(sz) >= sz
    BY <2>1, <2>3, <2>4, SMT
  <2> QED
    BY <1>4, <2>1, <2>5, Zenon DEF top
<1> QED
  BY <1>3, <1>4

LEMMA OutcomeMalloc ==
  ASSUME NEW sz \in Nat, NEW o \in A!SeaMalloc(sz) PROVE Outcome(o, sz)
<1>1. o = A!Failed \/ o = [sz |-> sz, ok |-> TRUE, havoc |-> 0]
  BY Zenon DEF A!SeaMalloc
<1>2. CASE o = A!Failed
  BY <1>2, SMT DEF Outcome, A!Failed
<1>3. CASE o = [sz |-> sz, ok |-> TRUE, havoc |-> 0]
  BY <1>3, SMT DEF Outcome
<1> QED
  BY <1>1, <1>2, <1>3

LEMMA OutcomeHavoc ==
  ASSUME NEW sz \in Nat, NEW o, Outcome(o, sz)
  PROVE  Outcome([o EXCEPT !.havoc = sz], sz)
BY SMT DEF Outcome

LEMMA OutcomeLess ==
  ASSUME NEW sz \in Nat, NEW more \in Nat, more >= sz, NEW o, Outcome(o, more)
  PROVE  Outcome(o, sz)
BY SMT DEF Outcome

\* The allocators that do not round give what was asked, or nothing.
LEMMA Outcomes ==
  ASSUME A!AllocAssumption, NEW sz \in AllocSizes
  PROVE  /\ \A o \in A!SeaMalloc(sz) : Outcome(o, sz)
         /\ \A o \in A!SeaMallocHavoc(sz) : Outcome(o, sz)
         /\ \A o \in A!SeaMallocSafe(sz) : Outcome(o, sz)
         /\ \A o \in A!SeaMallocHavocSafe(sz) : Outcome(o, sz)
         /\ \A o \in A!BoundedMallocHavoc(sz) : Outcome(o, sz)
         /\ \A o \in A!CanFailMallocHavoc(sz) : Outcome(o, sz)
<1>0. sz \in Nat
  BY RoundedUp
<1>1. \A o \in A!SeaMalloc(sz) : Outcome(o, sz)
  BY <1>0, OutcomeMalloc
<1>3. \A o \in A!SeaMallocHavoc(sz) : Outcome(o, sz)
  BY <1>0, <1>1, OutcomeHavoc, Zenon DEF A!SeaMallocHavoc, A!Havoc
<1>4. \A o \in A!SeaMallocSafe(sz) : Outcome(o, sz)
  <2>1. Outcome([sz |-> sz, ok |-> TRUE, havoc |-> 0], sz)
    BY <1>0, SMT DEF Outcome
  <2> QED
    BY <2>1, Zenon DEF A!SeaMallocSafe
<1>5. \A o \in A!SeaMallocHavocSafe(sz) : Outcome(o, sz)
  BY <1>3, Zenon DEF A!SeaMallocHavocSafe, A!Assume
<1>8. \A o \in {A!Failed} : Outcome(o, sz)
  <2>1. Outcome(A!Failed, sz)
    BY SMT DEF Outcome, A!Failed
  <2> QED
    BY <2>1, Zenon
<1>9. \A o \in A!BoundedMallocHavoc(sz) : Outcome(o, sz)
  BY <1>5, <1>8, Zenon DEF A!BoundedMallocHavoc
<1>10. \A o \in A!CanFailMallocHavoc(sz) : Outcome(o, sz)
  BY <1>3, <1>8, Zenon DEF A!CanFailMallocHavoc
<1> QED
  BY <1>1, <1>3, <1>4, <1>5, <1>9, <1>10

\* Those that do give as much, for a size that does not wrap.
LEMMA AlignedOutcomes ==
  ASSUME A!AllocAssumption, NEW sz \in AllocSizes, ~(sz > 2 ^ SizeW - 8)
  PROVE  /\ \A o \in A!SeaMallocAligned(sz) : Outcome(o, sz)
         /\ \A o \in A!SeaMallocAlignedSafe(sz) : Outcome(o, sz)
         /\ \A o \in A!SeaMallocAlignedHavoc(sz) : Outcome(o, sz)
<1>0. sz \in Nat /\ A!RoundUp(sz) \in Nat /\ A!RoundUp(sz) >= sz
  BY RoundedUp
<1>2. \A o \in A!SeaMallocAligned(sz) : Outcome(o, A!RoundUp(sz)) /\ Outcome(o, sz)
  <2> SUFFICES ASSUME NEW o \in A!SeaMallocAligned(sz)
               PROVE  Outcome(o, A!RoundUp(sz)) /\ Outcome(o, sz)
    OBVIOUS
  <2>1. Outcome(o, A!RoundUp(sz))
    BY <1>0, OutcomeMalloc, Zenon DEF A!SeaMallocAligned
  <2> QED
    BY <1>0, <2>1, OutcomeLess
<1>6. \A o \in A!SeaMallocAlignedSafe(sz) : Outcome(o, sz)
  BY <1>2, Zenon DEF A!SeaMallocAlignedSafe, A!Assume
<1>7. \A o \in A!SeaMallocAlignedHavoc(sz) : Outcome(o, sz)
  <2> SUFFICES ASSUME NEW o \in A!SeaMallocAlignedHavoc(sz) PROVE Outcome(o, sz)
    OBVIOUS
  <2>1. CASE build = "klee"
    <3>1. PICK q \in A!SeaMallocAligned(sz) :
            o = IF q.ok THEN [q EXCEPT !.havoc = A!RoundUp(sz)] ELSE q
      BY <2>1, Zenon DEF A!SeaMallocAlignedHavoc
    <3>2. Outcome(q, A!RoundUp(sz)) /\ Outcome(q, sz)
      BY <1>2
    <3>3. Outcome([q EXCEPT !.havoc = A!RoundUp(sz)], A!RoundUp(sz))
      BY <1>0, <3>2, OutcomeHavoc
    <3>4. Outcome([q EXCEPT !.havoc = A!RoundUp(sz)], sz)
      BY <1>0, <3>3, OutcomeLess
    <3> QED
      BY <3>1, <3>2, <3>4, Zenon
  <2>2. CASE build # "klee"
    BY <1>0, <1>2, <2>2, OutcomeHavoc, Zenon DEF A!SeaMallocAlignedHavoc, A!Havoc
  <2> QED
    BY <2>1, <2>2
<1> QED
  BY <1>2, <1>6, <1>7

\* An empty block, or none, with nothing havocked.
Empty(o) ==
  /\ DOMAIN o = {"sz", "ok", "havoc"} /\ o.ok \in BOOLEAN
  /\ o.sz = 0 /\ o.havoc = 0

\* And for one that does, an empty block; in the clam build there are none.
LEMMA WrappedOutcomes ==
  ASSUME A!AllocAssumption, NEW sz \in A!Nondet, sz > 2 ^ SizeW - 8
  PROVE  /\ \A o \in A!SeaMallocAligned(sz) : Fits("sea_malloc_aligned", sz, o)
         /\ \A o \in A!SeaMallocAlignedSafe(sz) : Fits("sea_malloc_aligned_safe", sz, o)
         /\ \A o \in A!SeaMallocAlignedHavoc(sz) : Fits("sea_malloc_aligned_havoc", sz, o)
<1>1. sz \in AllocSizes
  BY Zenon DEF A!Nondet
<1>2. sz \in Nat /\ A!RoundUp(sz) = 0
  BY <1>1, RoundedUp
<1>3. build # "clam"
  <2>1. 2 ^ (SizeW - 1) <= 2 ^ SizeW - 8
    BY SMT DEF A!AllocAssumption
  <2> SUFFICES ASSUME build = "clam" PROVE FALSE
    OBVIOUS
  <2>2. sz < 2 ^ (SizeW - 1)
    BY Zenon DEF A!Nondet, A!Clam
  <2>3. 2 ^ (SizeW - 1) \in Nat /\ 2 ^ SizeW \in Nat
    BY SMT DEF A!AllocAssumption
  <2> QED
    BY <1>2, <2>1, <2>2, <2>3, SMT
<1>4. /\ A!Wraps("sea_malloc_aligned", sz) /\ A!Wraps("sea_malloc_aligned_safe", sz)
      /\ A!Wraps("sea_malloc_aligned_havoc", sz)
  BY DEF A!Wraps, A!Aligned
<1>5. \A o \in A!SeaMallocAligned(sz) : Empty(o)
  <2>1. \A o \in A!SeaMalloc(0) : o = A!Failed \/ o = [sz |-> 0, ok |-> TRUE, havoc |-> 0]
    BY Zenon DEF A!SeaMalloc
  <2>2. Empty(A!Failed)
    BY SMT DEF Empty, A!Failed
  <2>3. Empty([sz |-> 0, ok |-> TRUE, havoc |-> 0])
    BY SMT DEF Empty
  <2> QED
    BY <1>2, <2>1, <2>2, <2>3, Zenon DEF A!SeaMallocAligned
<1>6. \A g, o : Empty(o) /\ A!Wraps(g, sz) => Fits(g, sz, o)
  BY <1>3, SMT DEF Empty, Fits, Given
<1>7. \A o \in A!SeaMallocAlignedHavoc(sz) : Fits("sea_malloc_aligned_havoc", sz, o)
  <2> SUFFICES ASSUME NEW o \in A!SeaMallocAlignedHavoc(sz)
               PROVE  Fits("sea_malloc_aligned_havoc", sz, o)
    OBVIOUS
  <2>1. CASE build = "klee"
    <3>1. PICK q \in A!SeaMallocAligned(sz) :
            o = IF q.ok THEN [q EXCEPT !.havoc = 0] ELSE q
      BY <1>2, <2>1, Zenon DEF A!SeaMallocAlignedHavoc
    <3>2. Empty(q)
      BY <1>5
    <3>3. Empty([q EXCEPT !.havoc = 0])
      BY <3>2, SMT DEF Empty
    <3> QED
      BY <1>4, <1>6, <3>1, <3>2, <3>3, Zenon
  <2>2. CASE build # "klee"
    <3>1. PICK q \in A!SeaMallocAligned(sz) : o = [q EXCEPT !.havoc = sz]
      BY <2>2, Zenon DEF A!SeaMallocAlignedHavoc, A!Havoc
    <3>2. Empty(q)
      BY <1>5
    <3>3. DOMAIN o = {"sz", "ok", "havoc"} /\ o.ok \in BOOLEAN /\ o.sz = 0 /\ o.havoc = sz
      BY <3>1, <3>2, SMT DEF Empty
    <3>4. Given("sea_malloc_aligned_havoc", sz, 0, sz)
      BY <1>3, <1>4, <2>2, Zenon DEF Given
    <3> QED
      BY <1>2, <3>3, <3>4, SMT DEF Fits
  <2> QED
    BY <2>1, <2>2
<1> QED
  BY <1>4, <1>5, <1>6, <1>7, Zenon DEF A!SeaMallocAlignedSafe, A!Assume

LEMMA OutcomeFits ==
  ASSUME NEW sz \in Nat, NEW f, ~A!Wraps(f, sz), NEW o, Outcome(o, sz)
  PROVE  Fits(f, sz, o)
BY Zenon DEF Outcome, Fits, Given

\* The calls of a program and what they may end with.
LEMMA CallsFit ==
  ASSUME A!AllocAssumption, NEW sz \in A!Nondet
  PROVE  /\ \A o \in A!SeaMalloc(sz) : Fits("sea_malloc", sz, o)
         /\ \A o \in A!SeaMalloc(sz) : Fits("realloc", sz, o)
         /\ \A o \in A!SeaMallocAligned(sz) : Fits("sea_malloc_aligned", sz, o)
         /\ \A o \in A!SeaMallocHavoc(sz) : Fits("sea_malloc_havoc", sz, o)
         /\ \A o \in A!SeaMallocSafe(sz) : Fits("sea_malloc_safe", sz, o)
         /\ \A o \in A!SeaMallocHavocSafe(sz) : Fits("sea_malloc_havoc_safe", sz, o)
         /\ \A o \in A!SeaMallocAlignedSafe(sz) : Fits("sea_malloc_aligned_safe", sz, o)
         /\ \A o \in A!SeaMallocAlignedHavoc(sz) : Fits("sea_malloc_aligned_havoc", sz, o)
         /\ \A o \in A!BoundedMallocHavoc(sz) : Fits("bounded_malloc_havoc", sz, o)
         /\ \A o \in A!CanFailMallocHavoc(sz) : Fits("can_fail_malloc_havoc", sz, o)
<1>1. sz \in AllocSizes /\ sz \in Nat
  BY RoundedUp, Zenon DEF A!Nondet
<1>2. /\ ~A!Wraps("sea_malloc", sz) /\ ~A!Wraps("realloc", sz)
      /\ ~A!Wraps("sea_malloc_havoc", sz) /\ ~A!Wraps("sea_malloc_safe", sz)
      /\ ~A!Wraps("sea_malloc_havoc_safe", sz) /\ ~A!Wraps("bounded_malloc_havoc", sz)
      /\ ~A!Wraps("can_fail_malloc_havoc", sz)
  BY SMT DEF A!Wraps, A!Aligned
<1>3. /\ \A o \in A!SeaMalloc(sz) : Fits("sea_malloc", sz, o) /\ Fits("realloc", sz, o)
      /\ \A o \in A!SeaMallocHavoc(sz) : Fits("sea_malloc_havoc", sz, o)
      /\ \A o \in A!SeaMallocSafe(sz) : Fits("sea_malloc_safe", sz, o)
      /\ \A o \in A!SeaMallocHavocSafe(sz) : Fits("sea_malloc_havoc_safe", sz, o)
      /\ \A o \in A!BoundedMallocHavoc(sz) : Fits("bounded_malloc_havoc", sz, o)
      /\ \A o \in A!CanFailMallocHavoc(sz) : Fits("can_fail_malloc_havoc", sz, o)
  BY <1>1, <1>2, Outcomes, OutcomeFits, Zenon
<1>4. /\ \A o \in A!SeaMallocAligned(sz) : Fits("sea_malloc_aligned", sz, o)
      /\ \A o \in A!SeaMallocAlignedSafe(sz) : Fits("sea_malloc_aligned_safe", sz, o)
      /\ \A o \in A!SeaMallocAlignedHavoc(sz) : Fits("sea_malloc_aligned_havoc", sz, o)
  <2>1. CASE sz > 2 ^ SizeW - 8
    BY <2>1, WrappedOutcomes
  <2>2. CASE ~(sz > 2 ^ SizeW - 8)
    <3>1. \A f : ~A!Wraps(f, sz)
      BY <2>2, Zenon DEF A!Wraps
    <3> QED
      BY <1>1, <2>2, <3>1, AlignedOutcomes, OutcomeFits, Zenon
  <2> QED
    BY <2>1, <2>2
<1> QED
  BY <1>3, <1>4, Zenon

\* A call that gets a block, or does not.
LEMMA GetKeeps ==
  ASSUME NEW f, NEW sz, NEW os, \A o \in os : Fits(f, sz, o), UNCHANGED build,
         NEW bs, NEW h, HoldsLive(bs, h), A!Get(f, sz, os, bs, h)
  PROVE  AllocInv'
<1>1. PICK o \in os :
        LET p == IF o.ok THEN Len(bs) + 1 ELSE 0 IN
        /\ blocks' = IF o.ok THEN Append(bs, [sz |-> o.sz, live |-> TRUE]) ELSE bs
        /\ held' = h \cup ({p} \ {0})
        /\ last' = [f |-> f, sz |-> sz, p |-> p, havoc |-> o.havoc]
  BY Zenon DEF A!Get, A!Null
<1>2. Fits(f, sz, o)
  OBVIOUS
<1>3. bs \in Seq(Block) /\ h = {b \in DOMAIN bs : bs[b].live}
  BY DEF HoldsLive
<1>4. CASE o.ok
  <2> DEFINE new == [sz |-> o.sz, live |-> TRUE]
  <2>1. new \in Block
    BY <1>2, SMT DEF Block, Fits
  <2>2. /\ blocks' = Append(bs, new)
        /\ held' = h \cup ({Len(bs) + 1} \ {0})
        /\ last' = [f |-> f, sz |-> sz, p |-> Len(bs) + 1, havoc |-> o.havoc]
    BY <1>1, <1>4, Zenon
  <2>3. new.live /\ new.sz = o.sz
    OBVIOUS
  <2> HIDE DEF new
  <2>4. /\ blocks' \in Seq(Block) /\ Len(bs) \in Nat
        /\ DOMAIN bs = 1 .. Len(bs) /\ DOMAIN blocks' = 1 .. Len(bs) + 1
        /\ \A k \in 1 .. Len(bs) : blocks'[k] = bs[k]
        /\ blocks'[Len(bs) + 1] = new
    BY <1>3, <2>1, <2>2, Appended
  <2>5. /\ 1 .. Len(bs) + 1 = 1 .. Len(bs) \cup {Len(bs) + 1}
        /\ {Len(bs) + 1} \ {0} = {Len(bs) + 1}
    BY <2>4, SMT
  <2>6. held' = {b \in DOMAIN blocks' : blocks'[b].live}
    BY <1>3, <2>2, <2>3, <2>4, <2>5, Zenon
  <2>7. last'.p = Len(bs) + 1 /\ last'.f = f /\ last'.sz = sz /\ last'.havoc = o.havoc
    BY <2>2
  <2>8. Given(f, sz, o.sz, o.havoc)
    BY <1>2, <1>4, Zenon DEF Fits
  <2>9. Given(last.f, last.sz, blocks[last.p].sz, last.havoc)'
    BY <2>3, <2>4, <2>7, <2>8, Zenon DEF Given, A!Wraps, A!Aligned
  <2> QED
    BY <2>3, <2>4, <2>5, <2>6, <2>7, <2>9, Zenon DEF AllocInv, HoldsLive
<1>5. CASE ~o.ok
  <2>1. blocks' = bs /\ held' = h \cup ({0} \ {0}) /\ last'.p = 0
    BY <1>1, <1>5, Zenon
  <2>2. held' = h
    BY <2>1, Zenon
  <2> QED
    BY <1>3, <2>1, <2>2, Zenon DEF AllocInv, HoldsLive
<1> QED
  BY <1>4, <1>5

\* free of a block that the program holds, or of NULL.
LEMMA FreedKeeps ==
  ASSUME HoldsLive(blocks, held), NEW p \in held \cup {0}
  PROVE  HoldsLive(A!Freed(p), held \ {p})
<1> DEFINE fr == A!Freed(p)
<1>1. blocks \in Seq(Block) /\ held = {b \in DOMAIN blocks : blocks[b].live}
  BY DEF HoldsLive
<1>2. /\ Len(blocks) \in Nat /\ DOMAIN blocks = 1 .. Len(blocks)
      /\ \A b \in 1 .. Len(blocks) : blocks[b] \in Block
  BY <1>1, SMT
<1>3. fr = [b \in 1 .. Len(blocks) |->
              IF b = p THEN [blocks[b] EXCEPT !.live = FALSE] ELSE blocks[b]]
  BY <1>2, Zenon DEF A!Freed
<1>4. \A bl \in Block : [bl EXCEPT !.live = FALSE] \in Block
                        /\ [bl EXCEPT !.live = FALSE].live = FALSE
  <2>1. \A bl \in Block : [bl EXCEPT !.live = FALSE] \in Block
    BY Zenon DEF Block
  <2>2. \A bl \in Block : [bl EXCEPT !.live = FALSE].live = FALSE
    BY SMT DEF Block
  <2> QED
    BY <2>1, <2>2
<1> HIDE DEF fr
<1>5. /\ fr = [b \in 1 .. Len(blocks) |-> fr[b]]
      /\ \A b \in 1 .. Len(blocks) :
           fr[b] = IF b = p THEN [blocks[b] EXCEPT !.live = FALSE] ELSE blocks[b]
  BY <1>3, Zenon
<1>6. \A b \in 1 .. Len(blocks) : fr[b] \in Block
  BY <1>2, <1>4, <1>5, Zenon
<1>7. fr \in Seq(Block) /\ DOMAIN fr = 1 .. Len(blocks)
  BY <1>2, <1>5, <1>6, SequenceOf, Zenon
<1>8. held \ {p} = {b \in DOMAIN fr : fr[b].live}
  BY <1>1, <1>2, <1>4, <1>5, <1>7, Zenon
<1> QED
  BY <1>7, <1>8, Zenon DEF HoldsLive, fr

LEMMA AllocInit == ASSUME A!Init PROVE AllocInv
<1>1. blocks = <<>> /\ held = {} /\ last.p = 0
  BY Zenon DEF A!Init, A!Null
<1>2. blocks \in Seq(Block) /\ DOMAIN blocks = {}
  BY <1>1, SMT
<1> QED
  BY <1>1, <1>2, Zenon DEF AllocInv, HoldsLive

LEMMA AllocStep == ASSUME A!AllocAssumption, AllocInv, A!Next PROVE AllocInv'
<1>0. HoldsLive(blocks, held) /\ A!Nondet \subseteq AllocSizes
  BY Zenon DEF AllocInv, A!Nondet
<1>1. ASSUME NEW sz \in A!Nondet, A!Malloc(sz) PROVE AllocInv'
  <2>1. PICK f, os : A!Get(f, sz, os, blocks, held) /\ \A o \in os : Fits(f, sz, o)
    BY <1>1, CallsFit, Zenon DEF A!Malloc
  <2>2. UNCHANGED build
    BY <2>1, Zenon DEF A!Get
  <2> QED
    BY <1>0, <2>1, <2>2, GetKeeps, Zenon
<1>2. ASSUME NEW p \in held, A!Free(p) PROVE AllocInv'
  <2>1. HoldsLive(A!Freed(p), held \ {p})
    BY <1>0, FreedKeeps, Zenon
  <2>2. blocks' = A!Freed(p) /\ held' = held \ {p} /\ last'.p = 0
    BY <1>2, Zenon DEF A!Free, A!Null
  <2> QED
    BY <2>1, <2>2, Zenon DEF AllocInv
<1>3. ASSUME NEW p \in held \cup {A!Null}, NEW sz \in A!Nondet, A!Realloc(p, sz)
      PROVE  AllocInv'
  <2>1. HoldsLive(A!Freed(p), held \ {p})
    BY <1>0, <1>3, FreedKeeps, Zenon DEF A!Null
  <2>2. UNCHANGED build
    BY <1>3, Zenon DEF A!Realloc, A!Get
  <2>3. \A o \in A!SeaMalloc(sz) : Fits("realloc", sz, o)
    BY CallsFit
  <2> QED
    BY <1>3, <2>1, <2>2, <2>3, GetKeeps, Zenon DEF A!Realloc
<1>4. CASE UNCHANGED A!vars
  BY <1>4, Zenon DEF A!vars, AllocInv, HoldsLive, Given, A!Wraps, A!Aligned
<1> QED
  BY <1>1, <1>2, <1>3, <1>4, Zenon DEF A!Next

LEMMA AllocPromise == ASSUME AllocInv PROVE A!GivesWhatWasAsked /\ A!NothingLost
BY Zenon DEF AllocInv, HoldsLive, Given, A!GivesWhatWasAsked, A!NothingLost, A!Null, A!Clam

-----------------------------------------------------------------------------
(* ByteFns *)

\* What a comparison of the first cnt bytes has to answer.
Right(v) ==
  /\ fn = "bcmp" => (v = 0 <=> ~F!Null /\ F!Differ = {})
  /\ fn \in {"memcmp", "strncmp"} =>
       v = IF F!Differ = {} THEN 0 ELSE F!Sign(s1[F!FirstDiffer], s2[F!FirstDiffer])

\* What memchr answers.
Found(v) ==
  \/ v = F!NotFound /\ (reads = "s1" => F!Wanted = {})
  \/ v \in 0 .. cnt - 1 /\ (reads = "s1" => v \in F!Wanted /\ \A k \in F!Wanted : v <= k)

NoZeroBefore(l) == \A k \in 0 .. l - 1 : s1[k] # 0 /\ s2[k] # 0

\* In the loops of a comparison no byte before idx decides; the scan of
\* strncmp has met no end of a string.
BytesInv ==
  /\ fn \in {"bcmp", "memcmp", "memchr", "strncmp"}
  /\ fnpc \in {"scan", "begin", "pre", "rest", "done"}
  /\ cnt \in 0 .. BufSize /\ idx \in Nat
  /\ s1 \in [0 .. BufSize - 1 -> Nat] /\ s2 \in [0 .. BufSize - 1 -> Nat]
  /\ ptrs = "same" => s2 = s1
  /\ fn # "memchr" => reads = "s1"
  /\ fnpc = "scan" => fn = "strncmp" /\ idx <= cnt /\ NoZeroBefore(idx)
  /\ fnpc = "begin" => idx = 0
  /\ fnpc = "pre" => idx <= MaxBuffer
  /\ fn = "strncmp" /\ fnpc # "scan" => NoZeroBefore(cnt)
  /\ fn # "memchr" /\ fnpc \in {"pre", "rest"} =>
       \A k \in 0 .. cnt - 1 : k < idx => s1[k] = s2[k]
  /\ fn = "memchr" /\ reads = "s1" /\ fnpc \in {"pre", "rest"} =>
       \A k \in 0 .. cnt - 1 : k < idx => s1[k] # s2[0]
  /\ fn = "bcmp" /\ fnpc \in {"pre", "rest"} => ~F!Null
  /\ fnpc = "done" => IF fn = "memchr" THEN Found(ret) ELSE Right(ret)

LEMMA WiderRange ==
  ASSUME NEW D, NEW S, NEW T, S \subseteq T, NEW g \in [D -> S]
  PROVE  g \in [D -> T]
OBVIOUS

LEMMA BytesInit == ASSUME F!ByteFnsAssumption, F!Init PROVE BytesInv
<1>1. /\ fn \in {"bcmp", "memcmp", "memchr", "strncmp"}
      /\ cnt \in 0 .. BufSize /\ idx = 0
      /\ s1 \in [0 .. BufSize - 1 -> Bytes] /\ s2 \in [0 .. BufSize - 1 -> Bytes]
      /\ ptrs = "same" => s2 = s1
      /\ fnpc = IF fn = "strncmp" THEN "scan" ELSE "begin"
  BY Zenon DEF F!Init, F!Buffers
<1>2. fn # "memchr" => reads = "s1"
  BY Zenon DEF F!Init
<1>3. s1 \in [0 .. BufSize - 1 -> Nat] /\ s2 \in [0 .. BufSize - 1 -> Nat]
  BY <1>1, WiderRange, Zenon DEF F!ByteFnsAssumption
<1>4. NoZeroBefore(0)
  BY SMT DEF NoZeroBefore
<1> QED
  BY <1>1, <1>2, <1>3, <1>4, SMT DEF BytesInv

\* A byte that decides is the first one that differs.
LEMMA FirstIs ==
  ASSUME NEW k \in 0 .. cnt - 1, cnt \in Nat, s1[k] # s2[k],
         \A l \in 0 .. cnt - 1 : l < k => s1[l] = s2[l]
  PROVE  F!Differ # {} /\ F!FirstDiffer = k
<1>1. k \in F!Differ /\ \A l \in F!Differ : l \in Int /\ k <= l
  BY SMT DEF F!Differ
<1>2. /\ F!FirstDiffer \in F!Differ
      /\ \A l \in F!Differ : F!FirstDiffer <= l
  BY <1>1, Zenon DEF F!FirstDiffer
<1>3. F!FirstDiffer \in Int /\ k <= F!FirstDiffer /\ F!FirstDiffer <= k /\ k \in Int
  BY <1>1, <1>2, Zenon
<1> HIDE DEF F!FirstDiffer
<1> QED
  BY <1>1, <1>3, SMT

\* One turn of a loop.
LEMMA TurnKeeps ==
  ASSUME F!ByteFnsAssumption, BytesInv, fnpc \in {"pre", "rest"}, idx < cnt,
         fnpc = "pre" => idx < MaxBuffer, F!Turn
  PROVE  BytesInv'
<1>1. /\ UNCHANGED <<fn, s1, s2, ptrs, cnt, reads>>
      /\ cnt \in Nat /\ idx \in 0 .. cnt - 1 /\ idx \in Nat
      /\ s1[idx] \in Nat /\ s2[idx] \in Nat
  <2>1. UNCHANGED <<fn, s1, s2, ptrs, cnt, reads>>
    BY Zenon DEF F!Turn, F!Return
  <2> QED
    BY <2>1, SMT DEF BytesInv, F!ByteFnsAssumption
<1>2. fn = "strncmp" => NoZeroBefore(cnt)'
  BY <1>1, SMT DEF BytesInv, NoZeroBefore
<1>3. CASE F!MayDecide /\ F!Return(F!Result)
  <2>1. ret' = F!Result /\ fnpc' = "done" /\ idx' = idx
    BY <1>3, Zenon DEF F!Return
  <2>2. ASSUME fn # "memchr" PROVE Right(F!Result)
    <3>1. ~F!Lost
      BY <2>2, SMT DEF F!Lost, BytesInv
    <3>2. s1[idx] # s2[idx]
      BY <1>3, <2>2, <3>1, Zenon DEF F!MayDecide, F!Decides
    <3>3. \A l \in 0 .. cnt - 1 : l < idx => s1[l] = s2[l]
      BY <2>2, Zenon DEF BytesInv
    <3>4. F!Differ # {} /\ F!FirstDiffer = idx
      BY <1>1, <3>2, <3>3, FirstIs, Zenon
    <3>5. fn = "bcmp" => F!Result = 1 /\ 1 # 0
      BY SMT DEF F!Result
    <3>6. fn \in {"memcmp", "strncmp"} => F!Result = F!Sign(s1[idx], s2[idx])
      BY <1>1, <3>2, SMT DEF F!Result, F!Sign
    <3> QED
      BY <3>4, <3>5, <3>6, Zenon DEF Right
  <2>3. fn # "memchr" => Right(ret)'
    BY <1>1, <2>1, <2>2, Zenon DEF Right, F!Null, F!Differ, F!FirstDiffer
  <2>4. ASSUME fn = "memchr" PROVE Found(ret)'
    <3>1. F!Result = idx
      BY <2>4, Zenon DEF F!Result
    <3>2. ASSUME reads = "s1" PROVE idx \in F!Wanted /\ \A k \in F!Wanted : idx <= k
      <4>1. s1[idx] = s2[0]
        BY <1>3, <2>4, <3>2, Zenon DEF F!MayDecide, F!Decides, F!Lost
      <4>2. \A k \in 0 .. cnt - 1 : k < idx => s1[k] # s2[0]
        BY <2>4, <3>2, Zenon DEF BytesInv
      <4> QED
        BY <1>1, <4>1, <4>2, SMT DEF F!Wanted
    <3>3. Found(idx)
      BY <1>1, <3>2, Zenon DEF Found
    <3> QED
      BY <1>1, <2>1, <3>1, <3>3, Zenon DEF Found, F!Wanted
  <2>5. fnpc' = "done" => IF fn' = "memchr" THEN Found(ret)' ELSE Right(ret)'
    BY <1>1, <2>3, <2>4, Zenon
  <2> QED
    BY <1>1, <1>2, <2>1, <2>5, SMT DEF BytesInv
<1>4. CASE F!MayNot /\ idx' = idx + 1 /\ UNCHANGED <<fnpc, ret>>
  <2>1. ASSUME fn # "memchr" PROVE s1[idx] = s2[idx]
    <3>1. ~F!Lost
      BY <2>1, SMT DEF F!Lost, BytesInv
    <3> QED
      BY <1>4, <2>1, <3>1, Zenon DEF F!MayNot, F!Decides
  <2>2. fn # "memchr" => \A k \in 0 .. cnt - 1 : k < idx + 1 => s1[k] = s2[k]
    <3>1. fn # "memchr" => \A k \in 0 .. cnt - 1 : k < idx => s1[k] = s2[k]
      BY Zenon DEF BytesInv
    <3>2. \A k \in 0 .. cnt - 1 : k < idx + 1 => k < idx \/ k = idx
      BY <1>1, SMT
    <3> QED
      BY <2>1, <3>1, <3>2, Zenon
  <2>3. fn = "memchr" /\ reads = "s1" => \A k \in 0 .. cnt - 1 : k < idx + 1 => s1[k] # s2[0]
    <3> SUFFICES ASSUME fn = "memchr", reads = "s1"
                 PROVE  \A k \in 0 .. cnt - 1 : k < idx + 1 => s1[k] # s2[0]
      OBVIOUS
    <3>1. s1[idx] # s2[0]
      BY <1>4, Zenon DEF F!MayNot, F!Decides, F!Lost
    <3>2. \A k \in 0 .. cnt - 1 : k < idx => s1[k] # s2[0]
      BY Zenon DEF BytesInv
    <3>3. \A k \in 0 .. cnt - 1 : k < idx + 1 => k < idx \/ k = idx
      BY <1>1, SMT
    <3> QED
      BY <3>1, <3>2, <3>3, Zenon
  <2>4. fn = "bcmp" /\ fnpc \in {"pre", "rest"} => ~F!Null
    BY Zenon DEF BytesInv
  <2> QED
    BY <1>1, <1>2, <1>4, <2>2, <2>3, <2>4, SMT DEF BytesInv, F!ByteFnsAssumption, F!Null
<1> QED
  BY <1>3, <1>4, Zenon DEF F!Turn

LEMMA BytesSame ==
  ASSUME BytesInv, UNCHANGED <<fn, s1, s2, ptrs, cnt, fnpc, idx, reads, ret>>
  PROVE  BytesInv'
<1>1. /\ Right(ret)' <=> Right(ret)
      /\ Found(ret)' <=> Found(ret)
      /\ F!Null' <=> F!Null
  BY Zenon DEF Right, Found, F!Null, F!Differ, F!FirstDiffer, F!Wanted
<1>2. NoZeroBefore(idx)' = NoZeroBefore(idx) /\ NoZeroBefore(cnt)' = NoZeroBefore(cnt)
  BY Zenon DEF NoZeroBefore
<1> QED
  BY <1>1, <1>2, ZenonT(30) DEF BytesInv

LEMMA BytesStep == ASSUME F!ByteFnsAssumption, BytesInv, F!Next PROVE BytesInv'
<1>1. CASE F!Scan
  <2>1. fnpc = "scan" /\ UNCHANGED <<fn, s1, s2, ptrs, reads, ret>>
    BY <1>1, Zenon DEF F!Scan
  <2>2. /\ fn = "strncmp" /\ idx <= cnt /\ NoZeroBefore(idx)
        /\ cnt \in 0 .. BufSize /\ idx \in Nat
    BY <2>1, Zenon DEF BytesInv
  <2>3. CASE idx < cnt /\ s1[idx] # 0 /\ s2[idx] # 0
    <3>1. idx' = idx + 1 /\ cnt' = cnt /\ fnpc' = "scan"
      BY <1>1, <2>1, <2>3, Zenon DEF F!Scan
    <3>2. NoZeroBefore(idx)'
      BY <2>1, <2>2, <2>3, <3>1, SMT DEF NoZeroBefore
    <3> QED
      BY <2>1, <2>2, <2>3, <3>1, <3>2, SMT DEF BytesInv
  <2>4. CASE ~(idx < cnt /\ s1[idx] # 0 /\ s2[idx] # 0)
    <3>1. cnt' = idx /\ fnpc' = "begin" /\ idx' = 0
      BY <1>1, <2>4, Zenon DEF F!Scan
    <3>2. NoZeroBefore(cnt)'
      BY <2>1, <2>2, <3>1, Zenon DEF NoZeroBefore
    <3>3. cnt' \in 0 .. BufSize /\ idx' \in Nat
      BY <2>2, <3>1, SMT DEF F!ByteFnsAssumption
    <3>4. "begin" # "pre" /\ "begin" # "rest" /\ "begin" # "scan" /\ "begin" # "done"
      BY Zenon
    <3> QED
      BY <2>1, <2>2, <3>1, <3>2, <3>3, <3>4, Zenon DEF BytesInv
  <2> QED
    BY <2>3, <2>4
<1>2. CASE F!Begin
  <2>1. fnpc = "begin" /\ idx = 0
    BY <1>2, Zenon DEF F!Begin, BytesInv
  <2>2. \/ fn # "memchr" /\ ptrs = "same" /\ F!Return(0)
        \/ fn = "bcmp" /\ F!Null /\ F!Return(1)
        \/ (fn = "bcmp" => ~F!Null) /\ fnpc' = "pre" /\ UNCHANGED <<fn, s1, s2, ptrs, cnt, idx, reads, ret>>
    BY <1>2, Zenon DEF F!Begin
  <2>3. fn = "strncmp" => NoZeroBefore(cnt)
    BY <2>1, SMT DEF BytesInv
  <2>4. CASE fn # "memchr" /\ ptrs = "same" /\ F!Return(0)
    <3>1. F!Differ = {} /\ ~F!Null
      BY <2>4, SMT DEF F!Differ, F!Null, BytesInv
    <3>2. Right(0)
      BY <3>1, Zenon DEF Right
    <3>3. ret' = 0 /\ fnpc' = "done" /\ UNCHANGED <<fn, s1, s2, ptrs, cnt, idx, reads>>
      BY <2>4, Zenon DEF F!Return
    <3>4. Right(ret)' /\ (fn = "strncmp" => NoZeroBefore(cnt)')
      BY <2>3, <3>2, <3>3, Zenon DEF Right, NoZeroBefore, F!Null, F!Differ, F!FirstDiffer
    <3> QED
      BY <2>4, <3>3, <3>4, SMT DEF BytesInv
  <2>5. CASE fn = "bcmp" /\ F!Null /\ F!Return(1)
    <3>1. ret' = 1 /\ fnpc' = "done" /\ UNCHANGED <<fn, s1, s2, ptrs, cnt, idx, reads>>
      BY <2>5, Zenon DEF F!Return
    <3>2. "bcmp" # "memcmp" /\ "bcmp" # "strncmp" /\ 1 # 0
      BY SMT
    <3>3. Right(1)
      BY <2>5, <3>2, SMT DEF Right
    <3>4. Right(ret)'
      BY <3>1, <3>3, Zenon DEF Right, F!Null, F!Differ, F!FirstDiffer
    <3> QED
      BY <2>5, <3>1, <3>4, SMT DEF BytesInv
  <2>6. CASE (fn = "bcmp" => ~F!Null) /\ fnpc' = "pre" /\ UNCHANGED <<fn, s1, s2, ptrs, cnt, idx, reads, ret>>
    <3>1. fn = "strncmp" => NoZeroBefore(cnt)'
      BY <2>3, <2>6, Zenon DEF NoZeroBefore
    <3> QED
      BY <2>1, <2>6, <3>1, SMT DEF BytesInv, F!ByteFnsAssumption, F!Null
  <2> QED
    BY <2>2, <2>4, <2>5, <2>6
<1>3. CASE F!PreUnrolled
  <2>1. fnpc = "pre" /\ idx \in Nat /\ idx <= MaxBuffer /\ MaxBuffer \in Nat
    BY <1>3, Zenon DEF F!PreUnrolled, BytesInv, F!ByteFnsAssumption
  <2>2. CASE idx < MaxBuffer /\ idx < cnt
    <3>1. F!Turn
      BY <1>3, <2>2, Zenon DEF F!PreUnrolled
    <3> QED
      BY <2>1, <2>2, <3>1, TurnKeeps
  <2>3. CASE idx < MaxBuffer /\ ~(idx < cnt)
    <3>1. idx' = idx + 1 /\ UNCHANGED <<fn, s1, s2, ptrs, cnt, fnpc, reads, ret>>
      BY <1>3, <2>3, Zenon DEF F!PreUnrolled
    <3>2. fn = "strncmp" => NoZeroBefore(cnt)'
      BY <2>1, <3>1, SMT DEF NoZeroBefore, BytesInv
    <3>3. \A k \in 0 .. cnt - 1 : k < idx + 1 => k < idx
      BY <2>1, <2>3, SMT DEF BytesInv
    <3> QED
      BY <2>1, <2>3, <3>1, <3>2, <3>3, SMT DEF BytesInv, F!Null
  <2>4. CASE ~(idx < MaxBuffer)
    <3>1. fnpc' = "rest" /\ idx' = MaxBuffer /\ UNCHANGED <<fn, s1, s2, ptrs, cnt, reads, ret>>
      BY <1>3, <2>4, Zenon DEF F!PreUnrolled
    <3>2. idx = MaxBuffer
      BY <2>1, <2>4, SMT
    <3>3. fn = "strncmp" => NoZeroBefore(cnt)'
      BY <2>1, <3>1, SMT DEF NoZeroBefore, BytesInv
    <3> QED
      BY <2>1, <3>1, <3>2, <3>3, SMT DEF BytesInv, F!Null
  <2> QED
    BY <2>2, <2>3, <2>4
<1>4. CASE F!Rest
  <2>1. fnpc = "rest"
    BY <1>4, Zenon DEF F!Rest
  <2>2. CASE idx < cnt
    BY <1>4, <2>1, <2>2, TurnKeeps, SMT DEF F!Rest
  <2>3. CASE ~(idx < cnt)
    <3>1. fnpc' = "done" /\ UNCHANGED <<fn, s1, s2, ptrs, cnt, idx, reads>>
          /\ ret' = IF fn = "memchr" THEN F!NotFound ELSE 0
      BY <1>4, <2>3, Zenon DEF F!Rest, F!Return
    <3>0. \A k \in 0 .. cnt - 1 : k < idx
      BY <2>3, SMT DEF BytesInv
    <3>2. fn # "memchr" => F!Differ = {}
      <4>2. fn # "memchr" => \A k \in 0 .. cnt - 1 : k < idx => s1[k] = s2[k]
        BY <2>1, Zenon DEF BytesInv
      <4> QED
        BY <3>0, <4>2, Zenon DEF F!Differ
    <3>3. fn # "memchr" => Right(ret)'
      <4>1. fn # "memchr" => Right(0)
        BY <2>1, <3>2, SMT DEF Right, BytesInv
      <4> QED
        BY <3>1, <4>1, Zenon DEF Right, F!Null, F!Differ, F!FirstDiffer
    <3>5. fn = "memchr" => Found(ret)'
      <4>1. fn = "memchr" /\ reads = "s1" => F!Wanted = {}
        <5>1. fn = "memchr" /\ reads = "s1" => \A k \in 0 .. cnt - 1 : k < idx => s1[k] # s2[0]
          BY <2>1, Zenon DEF BytesInv
        <5> QED
          BY <3>0, <5>1, Zenon DEF F!Wanted
      <4> QED
        BY <3>1, <4>1, Zenon DEF Found, F!Wanted
    <3>6. fnpc' = "done" => IF fn' = "memchr" THEN Found(ret)' ELSE Right(ret)'
      BY <3>1, <3>3, <3>5, Zenon
    <3>4. fn = "strncmp" => NoZeroBefore(cnt)'
      BY <2>1, <3>1, SMT DEF NoZeroBefore, BytesInv
    <3> QED
      BY <2>1, <3>1, <3>4, <3>6, SMT DEF BytesInv
  <2> QED
    BY <2>2, <2>3
<1>5. CASE UNCHANGED F!vars
  BY <1>5, BytesSame, Zenon DEF F!vars
<1> QED
  BY <1>1, <1>2, <1>3, <1>4, <1>5, Zenon DEF F!Next, F!Done

LEMMA BytesPromise == ASSUME BytesInv PROVE F!ComparesBytes
<1> SUFFICES ASSUME fnpc = "done"
             PROVE  /\ fn = "bcmp" => (ret = 0 <=> ~F!Null /\ F!Differ = {})
                    /\ fn \in {"memcmp", "strncmp"} =>
                         ret = IF F!Differ = {} THEN 0
                               ELSE F!Sign(s1[F!FirstDiffer], s2[F!FirstDiffer])
                    /\ fn = "strncmp" => \A k \in 0 .. cnt - 1 : s1[k] # 0 /\ s2[k] # 0
                    /\ fn = "memchr" =>
                         \/ ret = F!NotFound /\ (reads = "s1" => F!Wanted = {})
                         \/ /\ ret \in 0 .. cnt - 1
                            /\ reads = "s1" => ret \in F!Wanted /\ \A k \in F!Wanted : ret <= k
  BY Zenon DEF F!ComparesBytes
<1>1. IF fn = "memchr" THEN Found(ret) ELSE Right(ret)
  BY Zenon DEF BytesInv
<1>2. fn = "strncmp" => NoZeroBefore(cnt)
  BY SMT DEF BytesInv
<1>3. fn \in {"bcmp", "memcmp", "strncmp"} => fn # "memchr"
  BY SMT
<1> QED
  BY <1>1, <1>2, <1>3, Zenon DEF Right, Found, NoZeroBefore

-----------------------------------------------------------------------------
(* MemMove *)

\* The bytes from place lo to place hi have been moved, and no others.
Moved(m, lo, hi) ==
  /\ m = [a \in M!Addr |-> m[a]]
  /\ \A a \in M!Addr : m[a] = IF a \in to + lo .. to + hi - 1 THEN from + (a - to) ELSE a

\* How far behind the destination a backwards move writes, and whether it then
\* reads no byte that it has written.
Reach == IF M!ByWords THEN M!Over ELSE 0
Spared == M!ByWords => to - from >= M!Over

\* Backwards, the bytes from place lo on have been moved.
Backed(m, lo) ==
  /\ m = [a \in M!Addr |-> m[a]]
  /\ \A a \in M!Addr : m[a] # a => to + lo <= a /\ a < to + len + Reach
  /\ Spared => \A a \in M!Addr : to + lo <= a /\ a < to + len => m[a] = from + (a - to)

\* Forwards the bytes at the front have been moved, backwards those at the
\* end; what is still to be read has not been written.
MoveInv ==
  /\ {from, to, len, left} \subseteq Nat /\ left <= len
  /\ from + len + M!Over <= MemSize /\ to + len + M!Over <= MemSize
  /\ mvpc \in {"begin", "memcpy", "align", "copy_chunks", "lessthan8", "bytes", "done"}
  /\ mvpc = "begin" => left = len /\ Moved(mem, 0, 0)
  /\ mvpc = "memcpy" =>
       /\ from >= to /\ tmp_from = from + (len - left) /\ tmp_to = to + (len - left)
       /\ Moved(mem, 0, len - left)
  /\ mvpc \in {"align", "copy_chunks", "lessthan8", "bytes"} =>
       /\ from < to /\ tmp_from = from + left /\ tmp_to = to + left
       /\ Backed(mem, left)
  /\ mvpc = "align" => rem \in 1 .. 3 /\ left - rem >= 5
  /\ mvpc = "copy_chunks" => left >= 8
  /\ mvpc = "done" => IF from >= to THEN Moved(mem, 0, len) ELSE Backed(mem, 0)

LEMMA OverIs ==
  ASSUME M!MemMoveAssumption
  PROVE  /\ M!Over \in {0, 4} /\ M!Over \in Nat /\ LongBytes = 4 + M!Over
         /\ MemSize \in Nat /\ Reach \in Nat /\ Reach <= M!Over
BY SMT DEF M!MemMoveAssumption, M!Over, Reach

LEMMA MoveInit == ASSUME M!MemMoveAssumption, M!Init PROVE MoveInv
<1>1. /\ {from, to, len} \subseteq Nat /\ left = len /\ mvpc = "begin"
      /\ from + len + M!Over <= MemSize /\ to + len + M!Over <= MemSize
  BY SMT DEF M!Init, M!Addr, M!MemMoveAssumption
<1>2. \A a : a \notin to + 0 .. to + 0 - 1
  BY <1>1, SMT
<1>3. Moved(mem, 0, 0)
  BY <1>2, Zenon DEF Moved, M!Init
<1> QED
  BY <1>1, <1>3, SMT DEF MoveInv

\* A byte is moved forwards; it has not been written before it is read.
LEMMA ForwardOne ==
  ASSUME M!MemMoveAssumption, MoveInv, mvpc = "memcpy", left > 0
  PROVE  Moved([mem EXCEPT ![tmp_to] = mem[tmp_from]], 0, len - left + 1)
<1> DEFINE m2 == [mem EXCEPT ![tmp_to] = mem[tmp_from]]
           done == len - left
<1>1. /\ from \in Nat /\ to \in Nat /\ done \in Nat
      /\ from + done < MemSize /\ to + done < MemSize /\ from >= to
      /\ tmp_from = from + done /\ tmp_to = to + done /\ Moved(mem, 0, done)
      /\ MemSize \in Nat
  <2>1. /\ from >= to /\ tmp_from = from + done /\ tmp_to = to + done /\ Moved(mem, 0, done)
    BY Zenon DEF MoveInv
  <2>2. /\ from \in Nat /\ to \in Nat /\ done \in Nat /\ MemSize \in Nat
        /\ from + done < MemSize /\ to + done < MemSize
    BY OverIs, SMT DEF MoveInv, M!MemMoveAssumption
  <2> QED
    BY <2>1, <2>2, Zenon
<1>2. tmp_from \in M!Addr /\ tmp_to \in M!Addr /\ tmp_from \notin to + 0 .. to + done - 1
  BY <1>1, SMT DEF M!Addr
<1>3. mem[tmp_from] = tmp_from
  BY <1>1, <1>2, Zenon DEF Moved
<1>4. m2 = [a \in M!Addr |-> m2[a]]
      /\ \A a \in M!Addr : m2[a] = IF a = tmp_to THEN tmp_from ELSE mem[a]
  BY <1>1, <1>3, Zenon DEF Moved
<1>5. /\ \A a \in M!Addr : a \in to + 0 .. to + (done + 1) - 1
                             <=> a = tmp_to \/ a \in to + 0 .. to + done - 1
      /\ tmp_from = from + (tmp_to - to)
  BY <1>1, SMT DEF M!Addr
<1> HIDE DEF m2, done
<1>6. \A a \in M!Addr :
        m2[a] = IF a \in to + 0 .. to + (done + 1) - 1 THEN from + (a - to) ELSE a
  BY <1>1, <1>4, <1>5, Zenon DEF Moved
<1> QED
  BY <1>4, <1>6, Zenon DEF Moved, m2, done

\* k bytes are moved backwards, and o more above them once again, all of them
\* read before the first is written: none of the k has been written before, and
\* the o have not if the distance is large enough.
LEMMA BackwardSome ==
  ASSUME M!MemMoveAssumption, MoveInv,
         mvpc \in {"align", "copy_chunks", "lessthan8", "bytes"},
         NEW k \in Nat, k <= left, NEW o \in Nat, o <= Reach,
         NEW m2, m2 = [a \in M!Addr |-> m2[a]],
         \A a \in M!Addr : m2[a] = IF tmp_to - k <= a /\ a < tmp_to + o
                                     THEN mem[tmp_from + (a - tmp_to)] ELSE mem[a]
  PROVE  Backed(m2, left - k)
<1>1. /\ from \in Nat /\ to \in Nat /\ left \in Nat /\ len \in Nat /\ left <= len
      /\ from + len + M!Over <= MemSize /\ to + len + M!Over <= MemSize /\ from < to
      /\ tmp_from = from + left /\ tmp_to = to + left /\ Backed(mem, left)
      /\ MemSize \in Nat /\ M!Over \in Nat /\ Reach \in Nat /\ Reach <= M!Over
  BY OverIs, SMT DEF MoveInv
<1>0. /\ from \in Nat /\ to \in Nat /\ left \in Nat /\ len \in Nat /\ left <= len
      /\ from + len + M!Over <= MemSize /\ from < to /\ MemSize \in Nat
      /\ tmp_from = from + left /\ tmp_to = to + left
  BY <1>1
<1>a. PICK r : r = Reach /\ r \in Nat /\ r <= M!Over
  BY <1>1, Zenon
<1>b. PICK v : v = M!Over /\ v \in Nat
  BY <1>1, Zenon
<1>c. \A a \in M!Addr : a \in Nat /\ a < MemSize
  BY <1>0, SMT DEF M!Addr
<1>d. \A b \in Nat : b < MemSize => b \in M!Addr
  BY <1>0, SMT DEF M!Addr
<1>e. r <= v /\ o <= r /\ from + len + v <= MemSize
  BY <1>a, <1>b, <1>0, Zenon
<1>2. ASSUME NEW a \in M!Addr, m2[a] # a
      PROVE  to + (left - k) <= a /\ a < to + len + Reach
  <2>1. CASE tmp_to - k <= a /\ a < tmp_to + o
    <3>1. a \in Nat
      BY <1>c
    <3>2. to + (left - k) <= a /\ a < to + len + r
      BY <1>0, <1>a, <1>e, <2>1, <3>1, SMT
    <3> QED
      BY <1>a, <3>2, Zenon
  <2>2. CASE ~(tmp_to - k <= a /\ a < tmp_to + o)
    <3>1. to + left <= a /\ a < to + len + Reach
      BY <1>1, <1>2, <2>2, Zenon DEF Backed
    <3>2. a \in Nat
      BY <1>c
    <3>3. to + (left - k) <= a
      BY <1>0, <3>1, <3>2, SMT
    <3> QED
      BY <3>1, <3>3
  <2> QED
    BY <2>1, <2>2
<1>3. ASSUME Spared, NEW a \in M!Addr, to + (left - k) <= a, a < to + len
      PROVE  m2[a] = from + (a - to)
  <2>0. a \in Nat
    BY <1>c
  <2>1. CASE tmp_to - k <= a /\ a < tmp_to + o
    <3>1. PICK b : b = tmp_from + (a - tmp_to)
      OBVIOUS
    <3>2. b = from + (a - to) /\ b \in M!Addr
      <4>1. b = from + (a - to) /\ b \in Nat /\ b < MemSize
        BY <1>0, <1>b, <1>3, <1>e, <2>0, <2>1, <3>1, SMT
      <4> QED
        BY <1>d, <4>1, Zenon
    <3>3. CASE o = 0
      <4>1. ~(to + left <= b)
        BY <1>0, <2>0, <2>1, <3>2, <3>3, SMT
      <4> QED
        BY <1>1, <2>1, <3>1, <3>2, <4>1, Zenon DEF Backed
    <3>4. CASE o # 0
      <4>1. Reach = M!Over /\ to - from >= M!Over
        <5>1. M!ByWords
          BY <1>1, <3>4, SMT DEF Reach
        <5> QED
          BY <1>3, <5>1, Zenon DEF Reach, Spared
      <4>2. ~(to + left <= b)
        BY <1>0, <1>a, <1>b, <1>e, <2>0, <2>1, <3>2, <4>1, SMT
      <4> QED
        BY <1>1, <2>1, <3>1, <3>2, <4>2, Zenon DEF Backed
    <3> QED
      BY <3>3, <3>4
  <2>2. CASE ~(tmp_to - k <= a /\ a < tmp_to + o)
    <3>1. to + left <= a
      BY <1>0, <1>3, <2>0, <2>2, SMT
    <3> QED
      BY <1>1, <1>3, <2>2, <3>1, Zenon DEF Backed
  <2> QED
    BY <2>1, <2>2
<1> QED
  BY <1>2, <1>3, Zenon DEF Backed

\* A single byte.
LEMMA BackwardOne ==
  ASSUME M!MemMoveAssumption, MoveInv,
         mvpc \in {"align", "copy_chunks", "lessthan8", "bytes"}, left > 0
  PROVE  Backed([mem EXCEPT ![tmp_to - 1] = mem[tmp_from - 1]], left - 1)
<1> DEFINE m2 == [mem EXCEPT ![tmp_to - 1] = mem[tmp_from - 1]]
<1>1. /\ left \in Nat /\ tmp_from = from + left /\ tmp_to = to + left /\ Backed(mem, left)
      /\ to \in Nat /\ from \in Nat
  BY SMT DEF MoveInv
<1>2. m2 = [a \in M!Addr |-> m2[a]]
      /\ \A a \in M!Addr : m2[a] = IF a = tmp_to - 1 THEN mem[tmp_from - 1] ELSE mem[a]
  BY <1>1, Zenon DEF Backed
<1>3. \A a \in M!Addr : tmp_to - 1 <= a /\ a < tmp_to + 0 <=> a = tmp_to - 1
  BY <1>1, SMT DEF M!Addr
<1>4. tmp_from + ((tmp_to - 1) - tmp_to) = tmp_from - 1
  BY <1>1, SMT
<1>5. 1 \in Nat /\ 1 <= left /\ 0 \in Nat /\ 0 <= Reach
  BY <1>1, OverIs, SMT
<1> HIDE DEF m2
<1>6. \A a \in M!Addr : m2[a] = IF tmp_to - 1 <= a /\ a < tmp_to + 0
                                  THEN mem[tmp_from + (a - tmp_to)] ELSE mem[a]
  BY <1>2, <1>3, <1>4, Zenon
<1> QED
  BY <1>2, <1>5, <1>6, BackwardSome, Zenon DEF m2

\* Words: the lower k bytes of what they cover are moved for the first time.
LEMMA BackwardWords ==
  ASSUME M!MemMoveAssumption, MoveInv,
         mvpc \in {"align", "copy_chunks", "lessthan8", "bytes"},
         NEW k \in Nat, 4 <= k, k <= left,
         mem' = M!Copied(tmp_to - k, tmp_from - k, k + M!Over)
  PROVE  Backed(mem', left - k)
<1>1. /\ from \in Nat /\ to \in Nat /\ left \in Nat /\ len \in Nat /\ left <= len
      /\ from < to /\ tmp_from = from + left /\ tmp_to = to + left
      /\ M!Over \in Nat
  BY OverIs, SMT DEF MoveInv
<1>2. Reach = M!Over
  BY <1>1, SMT DEF Reach, M!ByWords
<1>3. \A a \in M!Addr :
        /\ a \in tmp_to - k .. (tmp_to - k) + (k + M!Over) - 1
             <=> tmp_to - k <= a /\ a < tmp_to + M!Over
        /\ (tmp_from - k) + (a - (tmp_to - k)) = tmp_from + (a - tmp_to)
  BY <1>1, SMT DEF M!Addr
<1>4. /\ mem' = [a \in M!Addr |-> mem'[a]]
      /\ \A a \in M!Addr : mem'[a] =
           IF a \in tmp_to - k .. (tmp_to - k) + (k + M!Over) - 1
             THEN mem[(tmp_from - k) + (a - (tmp_to - k))] ELSE mem[a]
  BY Zenon DEF M!Copied
<1>5. \A a \in M!Addr : mem'[a] = IF tmp_to - k <= a /\ a < tmp_to + M!Over
                                     THEN mem[tmp_from + (a - tmp_to)] ELSE mem[a]
  BY <1>3, <1>4, Zenon
<1>6. M!Over <= Reach
  BY <1>1, <1>2, SMT
<1> QED
  BY <1>1, <1>4, <1>5, <1>6, BackwardSome, Zenon

\* What the invariant says while bytes are moved backwards.
Backwards(l) ==
  /\ l \in Nat /\ l <= len /\ from < to
  /\ tmp_from' = from + l /\ tmp_to' = to + l /\ Backed(mem', l)

LEMMA BackwardKeeps ==
  ASSUME MoveInv, UNCHANGED <<from, to, len>>, Backwards(left'),
         mvpc' \in {"align", "copy_chunks", "lessthan8", "bytes"},
         mvpc' = "align" => rem' \in 1 .. 3 /\ left' - rem' >= 5,
         mvpc' = "copy_chunks" => left' >= 8
  PROVE  MoveInv'
<1>1. Backed(mem, left)'
  BY Zenon DEF Backed, Backwards, M!Addr, Reach, Spared, M!ByWords, M!Over
<1>2. M!Over' = M!Over
  BY Zenon DEF M!Over
<1> QED
  BY <1>1, <1>2, SMT DEF MoveInv, Backwards

LEMMA MoveSame ==
  ASSUME MoveInv, UNCHANGED <<mem, from, to, len, tmp_from, tmp_to, left, rem, mvpc>>
  PROVE  MoveInv'
<1>1. /\ Backed(mem, left)' <=> Backed(mem, left)
      /\ Backed(mem, 0)' <=> Backed(mem, 0)
  BY Zenon DEF Backed, M!Addr, Reach, Spared, M!ByWords, M!Over
<1> QED
  BY <1>1, Zenon DEF MoveInv, Moved, M!Addr, M!Over

LEMMA MoveStep == ASSUME M!MemMoveAssumption, MoveInv, M!Next PROVE MoveInv'
<1>0. /\ {from, to, len, left} \subseteq Nat /\ left <= len
      /\ from + len + M!Over <= MemSize /\ to + len + M!Over <= MemSize
      /\ M!Over \in Nat /\ Reach \in Nat /\ Reach <= M!Over /\ LongBytes = 4 + M!Over
      /\ M!Over' = M!Over
  BY OverIs, SMT DEF MoveInv, M!Over
<1>1. CASE M!Begin
  <2>1. mvpc = "begin" /\ left = len /\ Moved(mem, 0, 0) /\ UNCHANGED <<mem, from, to, len, left>>
    BY <1>1, Zenon DEF M!Begin, MoveInv
  <2>2. CASE from >= to
    <3>1. tmp_from' = from /\ tmp_to' = to /\ mvpc' = "memcpy"
      BY <1>1, <2>2, Zenon DEF M!Begin
    <3>2. len - left = 0 /\ from = from + 0 /\ to = to + 0
      BY <1>0, <2>1, SMT
    <3>3. Moved(mem, 0, len - left)'
      BY <2>1, <3>2, Zenon DEF Moved, M!Addr
    <3> QED
      BY <1>0, <2>1, <2>2, <3>1, <3>2, <3>3, SMT DEF MoveInv
  <2>3. CASE ~(from >= to)
    <3>1. tmp_from' = from + len /\ tmp_to' = to + len
      BY <1>1, <2>3, Zenon DEF M!Begin
    <3>2. \/ len < 8 /\ mvpc' = "lessthan8"
          \/ ~(len < 8) /\ mvpc' = "copy_chunks"
          \/ ~(len < 8) /\ (to + len) % 4 # 0 /\ mvpc' = "align" /\ rem' = 4 - ((to + len) % 4)
      BY <1>1, <2>3, Zenon DEF M!Begin
    <3>3. Backed(mem, len)
      <4>1. \A a : a \notin to + 0 .. to + 0 - 1
        BY <1>0, SMT
      <4>2. \A a \in M!Addr : mem[a] = a
        BY <2>1, <4>1, Zenon DEF Moved
      <4>3. \A a \in M!Addr : ~(to + len <= a /\ a < to + len)
        BY <1>0, SMT DEF M!Addr
      <4>4. mem = [a \in M!Addr |-> mem[a]]
        BY <2>1, Zenon DEF Moved
      <4> QED
        BY <4>2, <4>3, <4>4, Zenon DEF Backed
    <3>4. Backwards(left')
      BY <1>0, <2>1, <2>3, <3>1, <3>3, SMT DEF Backwards
    <3>5. mvpc' = "align" => rem' \in 1 .. 3 /\ left' - rem' >= 5
      BY <1>0, <2>1, <3>2, SMT
    <3>6. mvpc' = "copy_chunks" => left' >= 8
      BY <1>0, <2>1, <3>2, SMT
    <3>7. mvpc' \in {"align", "copy_chunks", "lessthan8", "bytes"}
      BY <3>2, Zenon
    <3> QED
      BY <2>1, <3>4, <3>5, <3>6, <3>7, BackwardKeeps, Zenon
  <2> QED
    BY <2>2, <2>3
<1>2. CASE M!Memcpy
  <2>1. mvpc = "memcpy" /\ UNCHANGED <<from, to, len, rem>>
    BY <1>2, Zenon DEF M!Memcpy
  <2>2. /\ from >= to /\ tmp_from = from + (len - left) /\ tmp_to = to + (len - left)
        /\ Moved(mem, 0, len - left)
    BY <2>1, Zenon DEF MoveInv
  <2>3. CASE left > 0
    <3>1. /\ mem' = [mem EXCEPT ![tmp_to] = mem[tmp_from]]
          /\ tmp_from' = tmp_from + 1 /\ tmp_to' = tmp_to + 1 /\ left' = left - 1
          /\ mvpc' = "memcpy"
      BY <1>2, <2>1, <2>3, Zenon DEF M!Memcpy
    <3>2. len' - left' = len - left + 1
      BY <1>0, <2>1, <3>1, SMT
    <3>3. Moved(mem', 0, len - left + 1)
      BY <2>1, <2>3, <3>1, ForwardOne, Zenon
    <3>4. Moved(mem, 0, len - left)'
      BY <2>1, <3>2, <3>3, Zenon DEF Moved, M!Addr
    <3> QED
      BY <1>0, <2>1, <2>2, <2>3, <3>1, <3>4, SMT DEF MoveInv
  <2>4. CASE ~(left > 0)
    <3>1. mvpc' = "done" /\ UNCHANGED <<mem, tmp_from, tmp_to, left>>
      BY <1>2, <2>4, Zenon DEF M!Memcpy
    <3>2. len - left = len
      BY <1>0, <2>4, SMT
    <3>3. Moved(mem, 0, len)'
      BY <2>1, <2>2, <3>1, <3>2, Zenon DEF Moved, M!Addr
    <3>4. from' >= to'
      BY <2>1, <2>2, Zenon
    <3> QED
      BY <1>0, <2>1, <3>1, <3>3, <3>4, SMT DEF MoveInv
  <2> QED
    BY <2>3, <2>4
<1>3. CASE M!Align
  <2>1. /\ mvpc = "align" /\ UNCHANGED <<from, to, len>>
        /\ mem' = [mem EXCEPT ![tmp_to - 1] = mem[tmp_from - 1]]
        /\ tmp_from' = tmp_from - 1 /\ tmp_to' = tmp_to - 1
        /\ left' = left - 1 /\ rem' = rem - 1
        /\ mvpc' = IF rem' > 0 THEN "align" ELSE IF left' >= 8 THEN "copy_chunks" ELSE "lessthan8"
    BY <1>3, Zenon DEF M!Align
  <2>2. /\ from < to /\ tmp_from = from + left /\ tmp_to = to + left
        /\ rem \in 1 .. 3 /\ left - rem >= 5
    BY <2>1, Zenon DEF MoveInv
  <2>3. Backed(mem', left - 1)
    <3>1. left > 0
      BY <1>0, <2>2, SMT
    <3> QED
      BY <2>1, <3>1, BackwardOne, Zenon
  <2>4. Backwards(left')
    BY <1>0, <2>1, <2>2, <2>3, SMT DEF Backwards
  <2>5. mvpc' = "align" => rem' \in 1 .. 3 /\ left' - rem' >= 5
    BY <1>0, <2>1, <2>2, SMT
  <2>6. mvpc' = "copy_chunks" => left' >= 8
    BY <2>1, Zenon
  <2>7. mvpc' \in {"align", "copy_chunks", "lessthan8", "bytes"}
    BY <2>1, Zenon
  <2> QED
    BY <2>1, <2>4, <2>5, <2>6, <2>7, BackwardKeeps, Zenon
<1>4. CASE M!CopyChunks
  <2>1. /\ mvpc = "copy_chunks" /\ UNCHANGED <<from, to, len>>
        /\ mem' = M!Copied(tmp_to - 8, tmp_from - 8, 4 + LongBytes) /\ left' = left - 8
        /\ tmp_from' = tmp_from - 8 /\ tmp_to' = tmp_to - 8
        /\ mvpc' = IF left' >= 8 THEN "copy_chunks" ELSE "lessthan8"
    BY <1>4, Zenon DEF M!CopyChunks
  <2>2. from < to /\ tmp_from = from + left /\ tmp_to = to + left /\ left >= 8
    BY <2>1, Zenon DEF MoveInv
  <2>8. Backed(mem', left - 8)
    <3>1. 8 \in Nat /\ 4 <= 8 /\ 8 <= left /\ 4 + LongBytes = 8 + M!Over
      BY <1>0, <2>2, SMT
    <3> QED
      BY <2>1, <3>1, BackwardWords, Zenon
  <2>9. Backwards(left')
    BY <1>0, <2>1, <2>2, <2>8, SMT DEF Backwards
  <2> QED
    BY <2>1, <2>9, BackwardKeeps, Zenon
<1>5. CASE M!LessThan8
  <2>1. mvpc = "lessthan8" /\ mvpc' = "bytes" /\ UNCHANGED <<from, to, len>>
    BY <1>5, Zenon DEF M!LessThan8
  <2>2. from < to /\ tmp_from = from + left /\ tmp_to = to + left /\ Backed(mem, left)
    BY <2>1, Zenon DEF MoveInv
  <2>3. CASE left >= 4
    <3>1. /\ mem' = M!Copied(tmp_to - 4, tmp_from - 4, LongBytes)
          /\ left' = left - 4 /\ tmp_from' = tmp_from - 4 /\ tmp_to' = tmp_to - 4
      BY <1>5, <2>3, Zenon DEF M!LessThan8
    <3>6. Backed(mem', left - 4)
      <4>1. 4 \in Nat /\ 4 <= 4 /\ 4 <= left /\ LongBytes = 4 + M!Over
        BY <1>0, <2>3, SMT
      <4> QED
        BY <2>1, <3>1, <4>1, BackwardWords, Zenon
    <3>7. Backwards(left')
      BY <1>0, <2>2, <2>3, <3>1, <3>6, SMT DEF Backwards
    <3> QED
      BY <2>1, <3>7, BackwardKeeps, Zenon
  <2>4. CASE ~(left >= 4)
    <3>1. UNCHANGED <<mem, tmp_from, tmp_to, left>>
      BY <1>5, <2>4, Zenon DEF M!LessThan8
    <3>2. Backwards(left')
      BY <1>0, <2>2, <3>1, SMT DEF Backwards
    <3> QED
      BY <2>1, <3>2, BackwardKeeps, Zenon
  <2> QED
    BY <2>3, <2>4
<1>6. CASE M!Tail
  <2>1. mvpc = "bytes" /\ UNCHANGED <<from, to, len>>
    BY <1>6, Zenon DEF M!Tail
  <2>2. from < to /\ tmp_from = from + left /\ tmp_to = to + left /\ Backed(mem, left)
    BY <2>1, Zenon DEF MoveInv
  <2>3. CASE left > 0
    <3>1. /\ mem' = [mem EXCEPT ![tmp_to - 1] = mem[tmp_from - 1]]
          /\ tmp_from' = tmp_from - 1 /\ tmp_to' = tmp_to - 1 /\ left' = left - 1
          /\ mvpc' = "bytes"
      BY <1>6, <2>1, <2>3, Zenon DEF M!Tail
    <3>2. Backed(mem', left - 1)
      BY <2>1, <2>3, <3>1, BackwardOne, Zenon
    <3>3. Backwards(left')
      BY <1>0, <2>2, <2>3, <3>1, <3>2, SMT DEF Backwards
    <3> QED
      BY <2>1, <3>1, <3>3, BackwardKeeps, Zenon
  <2>4. CASE ~(left > 0)
    <3>1. mvpc' = "done" /\ UNCHANGED <<mem, tmp_from, tmp_to, left>>
      BY <1>6, <2>4, Zenon DEF M!Tail
    <3>2. left = 0
      BY <1>0, <2>4, SMT
    <3>3. Backed(mem, 0)'
      BY <2>1, <2>2, <3>1, <3>2, Zenon DEF Backed, M!Addr, Reach, Spared, M!ByWords, M!Over
    <3>4. ~(from' >= to')
      BY <1>0, <2>1, <2>2, SMT
    <3> QED
      BY <1>0, <2>1, <3>1, <3>3, <3>4, SMT DEF MoveInv
  <2> QED
    BY <2>3, <2>4
<1>7. CASE UNCHANGED M!vars
  BY <1>7, MoveSame, Zenon DEF M!vars
<1> QED
  BY <1>1, <1>2, <1>3, <1>4, <1>5, <1>6, <1>7, Zenon DEF M!Next, M!Done

LEMMA MovePromise ==
  ASSUME M!MemMoveAssumption, MoveInv PROVE M!MovesBytes /\ M!StaysInside
<1>0. /\ from \in Nat /\ to \in Nat /\ len \in Nat /\ left \in Nat /\ left <= len
      /\ from + len + M!Over <= MemSize /\ to + len + M!Over <= MemSize /\ MemSize \in Nat
      /\ M!Over \in Nat /\ Reach \in Nat
  BY OverIs, SMT DEF MoveInv
<1>1. M!MovesBytes
  <2> SUFFICES ASSUME mvpc = "done", Spared, NEW k \in 0 .. len - 1 PROVE mem[to + k] = from + k
    BY Zenon DEF M!MovesBytes, Spared
  <2>1. /\ to + k \in M!Addr /\ to + k \in to + 0 .. to + len - 1
        /\ to + 0 <= to + k /\ to + k < to + len /\ from + ((to + k) - to) = from + k
    BY <1>0, SMT DEF M!Addr
  <2> QED
    BY <2>1, Zenon DEF MoveInv, Moved, Backed
<1>2. M!StaysInside
  <2> SUFFICES ASSUME NEW a \in M!Addr, mem[a] # a PROVE to <= a /\ a < to + len + Reach
    BY Zenon DEF M!StaysInside, Reach
  <2>1. CASE mvpc \in {"begin", "memcpy"} \/ (mvpc = "done" /\ from >= to)
    <3>1. \/ a \in to + 0 .. to + 0 - 1 \/ a \in to + 0 .. to + (len - left) - 1
          \/ a \in to + 0 .. to + len - 1
      BY <2>1, SMT DEF MoveInv, Moved
    <3> QED
      BY <1>0, <3>1, SMT DEF M!Addr
  <2>2. CASE mvpc \notin {"begin", "memcpy"} /\ ~(mvpc = "done" /\ from >= to)
    <3>1. Backed(mem, left) \/ Backed(mem, 0)
      BY <2>2, SMT DEF MoveInv
    <3>2. (to + left <= a \/ to + 0 <= a) /\ a < to + len + Reach
      BY <3>1, Zenon DEF Backed
    <3> QED
      BY <1>0, <3>2, SMT DEF M!Addr
  <2> QED
    BY <2>1, <2>2
<1> QED
  BY <1>1, <1>2

-----------------------------------------------------------------------------
(* LibKeepsItsWord *)

\* The replacements of lib/ answer right for buffers and memories of any size,
\* however many turns of a loop are unrolled, and after any calls.
THEOREM LibKeepsItsWordHolds == Spec => []LibKeepsItsWord
<1> DEFINE Inv == /\ part = "bytes" => BytesInv
                  /\ part = "move" => MoveInv
                  /\ part = "alloc" => AllocInv
<1>1. Init => Inv
  BY ProgramsAssumption, BytesInit, MoveInit, AllocInit, Zenon DEF Init
<1>2. Inv /\ [Next]_vars => Inv'
  <2>1. ASSUME Inv, UNCHANGED vars PROVE Inv'
    <3>1. UNCHANGED <<part, bytesVars, moveVars, allocVars>>
      BY <2>1, Zenon DEF vars
    <3>2. ASSUME part = "bytes" PROVE BytesInv'
      <4>1. BytesInv
        BY <2>1, <3>2, Zenon
      <4>2. UNCHANGED <<fn, s1, s2, ptrs, cnt, fnpc, idx, reads, ret>>
        BY <3>1, Zenon DEF bytesVars
      <4> QED
        BY <4>1, <4>2, BytesSame, Zenon
    <3>3. part = "move" => MoveInv'
      BY <2>1, <3>1, MoveSame, Zenon DEF moveVars
    <3>4. part = "alloc" => AllocInv'
      BY <2>1, <3>1, Zenon DEF allocVars, AllocInv, HoldsLive, Given, A!Wraps, A!Aligned
    <3> QED
      BY <3>1, <3>2, <3>3, <3>4, Zenon
  <2>2. ASSUME Inv, Next PROVE Inv'
    <3>1. part = "bytes" => BytesInv'
      BY <2>2, ProgramsAssumption, BytesStep, Zenon DEF Next
    <3>2. part = "move" => MoveInv'
      BY <2>2, ProgramsAssumption, MoveStep, Zenon DEF Next
    <3>3. part = "alloc" => AllocInv'
      BY <2>2, ProgramsAssumption, AllocStep, Zenon DEF Next
    <3> QED
      BY <2>2, <3>1, <3>2, <3>3, Zenon DEF Next
  <2> QED
    BY <2>1, <2>2
<1>3. Inv => LibKeepsItsWord
  BY ProgramsAssumption, BytesPromise, MovePromise, AllocPromise, Zenon DEF LibKeepsItsWord
<1> QED
  BY <1>1, <1>2, <1>3, PTL DEF Spec

-----------------------------------------------------------------------------
(* ChachaRng *)

\* What is between the two offsets is the next part of the stream of the
\* current key, whatever has been there before; the last word was before it.
RngInv ==
  /\ {key, buf_off, buf_fill} \subseteq Nat
  /\ key = 0 => bound = 0
  /\ took \in [key : Nat, at : Nat] /\ took.key <= key
  /\ key > 0 =>
       /\ took.key = key => took.at < buf_off
       /\ buf_off <= buf_fill
       /\ \A k \in buf_off .. buf_fill - 1 :
            buf[k % BufWords] = [key |-> key, at |-> k]

\* No two words of a refill are put in the same place of the ring.
LEMMA RefillInPlace ==
  ASSUME R!RngAssumption, RngInv, key > 0, buf_off = buf_fill,
         NEW new, NEW fill, R!Refill(new, fill)
  PROVE  /\ fill \in Nat /\ fill > buf_fill
         /\ \A k \in buf_fill .. fill - 1 :
              new[k % BufWords] = [key |-> key, at |-> k]
<1>1. /\ BufWords \in Nat \ {0} /\ BlockWords \in Nat \ {0}
      /\ key \in Nat /\ buf_fill \in Nat /\ buf_off \in Nat
  BY SMT DEF R!RngAssumption, RngInv
<1>2. PICK times \in 1 .. BufWords \div BlockWords :
        /\ fill = buf_fill + times * BlockWords
        /\ fill - buf_off <= BufWords
        /\ new = [i \in 0 .. BufWords - 1 |->
             LET at == {k \in buf_fill .. fill - 1 : k % BufWords = i} IN
             IF at = {} THEN buf[i] ELSE [key |-> key, at |-> R!Max(at)]]
  BY Zenon DEF R!Refill
<1>3. times \in Nat \ {0} /\ times * BlockWords \in Nat \ {0}
  <2>1. times \in Nat \ {0}
    BY <1>1, <1>2, SMT
  <2> HIDE <1>2
  <2> QED
    BY <1>1, <2>1, SMT
<1>4. fill \in Nat /\ fill > buf_fill /\ fill - buf_fill <= BufWords
  BY <1>1, <1>2, <1>3, SMT
<1>5. ASSUME NEW k \in buf_fill .. fill - 1
      PROVE  new[k % BufWords] = [key |-> key, at |-> k]
  <2>1. k \in Int /\ k % BufWords \in 0 .. BufWords - 1
    BY <1>1, <1>4, SMT
  <2>2. ASSUME NEW j \in buf_fill .. fill - 1, j % BufWords = k % BufWords
        PROVE  j = k
    <3>1. j \in Int /\ j - k < BufWords /\ k - j < BufWords
      BY <1>1, <1>4, SMT
    <3> QED
      BY <1>1, <2>1, <2>2, <3>1, ModEqual, Zenon
  <2>3. {j \in buf_fill .. fill - 1 : j % BufWords = k % BufWords} = {k}
    BY <2>2, Zenon
  <2>4. R!Max({k}) = k
    BY <2>1, SMT DEF R!Max
  <2> QED
    BY <1>2, <2>1, <2>3, <2>4, Zenon
<1> QED
  BY <1>4, <1>5

\* fd_chacha20rng_ulong reads the next word and leaves those after it.
LEMMA TakeNext ==
  ASSUME R!RngAssumption, RngInv, key > 0,
         NEW word, NEW b, NEW fill, R!Take(word, b, fill)
  PROVE  /\ word = [key |-> key, at |-> buf_off]
         /\ fill \in Nat /\ buf_off + 1 <= fill
         /\ \A k \in buf_off .. fill - 1 :
              b[k % BufWords] = [key |-> key, at |-> k]
<1>1. key \in Nat /\ buf_off \in Nat /\ buf_fill \in Nat /\ buf_off <= buf_fill
  BY SMT DEF RngInv
<1>2. /\ fill \in Nat /\ buf_off + 1 <= fill
      /\ \A k \in buf_off .. fill - 1 : b[k % BufWords] = [key |-> key, at |-> k]
  <2>1. CASE R!avail >= 1 /\ b = buf /\ fill = buf_fill
    BY <1>1, <2>1, SMT DEF RngInv, R!avail
  <2>2. CASE R!avail < 1 /\ R!Refill(b, fill)
    <3>1. buf_off = buf_fill
      BY <1>1, <2>2, SMT DEF R!avail
    <3> QED
      BY <1>1, <2>2, <3>1, RefillInPlace, SMT
  <2> QED
    BY <2>1, <2>2, Zenon DEF R!Take
<1>3. buf_off \in buf_off .. fill - 1
  BY <1>1, <1>2, SMT
<1> QED
  BY <1>2, <1>3, Zenon DEF R!Take

LEMMA Later ==
  ASSUME NEW a \in Nat, NEW c \in Nat
  PROVE  a + 1 .. c - 1 \subseteq a .. c - 1
BY SMT

LEMMA RngInit == ASSUME R!Init PROVE RngInv
BY SMT DEF R!Init, RngInv, R!Garbage

NextWord ==
  buf_off' > buf_off =>
    took' = [key |-> key, at |-> buf_off] /\ took' # took

LEMMA RngStep ==
  ASSUME R!RngAssumption, RngInv, R!Next
  PROVE  RngInv' /\ NextWord
<1>1. CASE UNCHANGED R!vars
  <2>1. UNCHANGED <<buf, buf_off, buf_fill, key, bound, took>> /\ buf_off \in Nat
    BY <1>1, SMT DEF R!vars, RngInv
  <2> QED
    BY <2>1, SMT DEF RngInv, NextWord
<1>2. CASE R!Start
  BY <1>2, SMT DEF R!Start, RngInv, NextWord
<1>3. ASSUME NEW m \in Ns, R!Call(m) PROVE RngInv' /\ NextWord
  BY <1>3, SMT DEF R!Call, RngInv, NextWord
<1>4. CASE R!Attempt
  <2>1. key > 0 /\ key' = key /\ buf_off' = buf_off + 1
    BY <1>4, SMT DEF R!Attempt, RngInv
  <2>2. R!Take(took', buf', buf_fill')
    BY <1>4, Zenon DEF R!Attempt
  <2>3. /\ took' = [key |-> key, at |-> buf_off]
        /\ buf_fill' \in Nat /\ buf_off + 1 <= buf_fill'
        /\ \A k \in buf_off .. buf_fill' - 1 :
             buf'[k % BufWords] = [key |-> key, at |-> k]
    BY <2>1, <2>2, TakeNext, Zenon
  <2>4. took' # took
    BY <2>1, <2>3, SMT DEF RngInv
  <2>5. RngInv'
    <3>1. key \in Nat /\ buf_off \in Nat
      BY SMT DEF RngInv
    <3>2. took' \in [key : Nat, at : Nat] /\ took'.key = key' /\ took'.at < buf_off'
      BY <2>1, <2>3, <3>1, SMT
    <3>3. {key', buf_off', buf_fill'} \subseteq Nat /\ key' > 0
      BY <2>1, <2>3, <3>1, SMT
    <3>4. \A k \in buf_off' .. buf_fill' - 1 :
            buf'[k % BufWords] = [key |-> key', at |-> k]
      <4>1. buf_fill' \in Nat
        BY <2>3
      <4>2. buf_off + 1 .. buf_fill' - 1 \subseteq buf_off .. buf_fill' - 1
        BY <3>1, <4>1, Later
      <4> QED
        BY <2>1, <2>3, <4>2, Zenon
    <3>5. buf_off' <= buf_fill' /\ key' # 0 /\ took'.key <= key'
      BY <2>1, <2>3, <3>1, <3>2, SMT
    <3> QED
      BY <3>2, <3>3, <3>4, <3>5, Zenon DEF RngInv
  <2> QED
    BY <2>3, <2>4, <2>5, Zenon DEF NextWord
<1> QED
  BY <1>1, <1>2, <1>3, <1>4, Zenon DEF R!Next


\* fd_chacha20rng_ulong returns the words of the stream of the last key, each
\* once and in order, however much the refill function produces at a time.
THEOREM StreamInOrderHolds == Spec => StreamInOrder
<1> DEFINE Inv == part = "rng" => RngInv
           Order == part = "rng" /\ buf_off' > buf_off =>
                      took' = [key |-> key, at |-> buf_off] /\ took' # took
<1>1. Init => Inv
  BY RngInit, Zenon DEF Init
<1>2. Inv /\ [Next]_vars => Inv' /\ [Order]_vars
  <2>1. ASSUME Inv, UNCHANGED vars PROVE Inv'
    <3>1. UNCHANGED <<part, rngVars>>
      BY <2>1, Zenon DEF vars
    <3> QED
      BY <2>1, <3>1, Zenon DEF rngVars, RngInv
  <2>2. ASSUME Inv, Next PROVE Inv' /\ Order
    BY <2>2, ProgramsAssumption, RngStep, Zenon DEF Next, NextWord
  <2> QED
    BY <2>1, <2>2, Zenon
<1> QED
  BY <1>1, <1>2, PTL DEF Spec, StreamInOrder

-----------------------------------------------------------------------------
(* ChachaRng: rolls *)

LEMMA SameCardinality == ASSUME NEW S PROVE R!Cardinality(S) = Cardinality(S)
BY Zenon DEF R!Cardinality, Cardinality

LEMMA TimesMonotone ==
  ASSUME NEW a \in Int, NEW b \in Int, NEW m \in Nat, a <= b
  PROVE  m * a <= m * b
<1>1. m * (b - a) >= 0
  BY SMT
<1> QED
  BY <1>1, SMT

\* The words v that are rolled to h if those are accepted whose product with m
\* is in the first z numbers after a multiple of top, and all of these words.
AcceptedAt(top, m, z, h) == {v \in 0 .. top - 1 : (v * m) \div top = h /\ (v * m) % top < z}
Accepted(top, m, z) == {v \in 0 .. top - 1 : (v * m) % top < z}

\* The words that fall in one of m intervals, at its beginning of q * m, are
\* q ones in a row, wherever the interval is.
LEMMA OneInterval ==
  ASSUME NEW top \in Nat \ {0}, NEW m \in Nat \ {0}, NEW q \in Nat \ {0},
         q * m <= top, NEW h \in 0 .. m - 1
  PROVE  /\ IsFiniteSet(AcceptedAt(top, m, q * m, h))
         /\ Cardinality(AcceptedAt(top, m, q * m, h)) = q
<1> DEFINE z == q * m
           lo == top * h
           first == (lo + m - 1) \div m
<1>1. z \in Nat \ {0} /\ z <= top /\ lo \in Nat /\ lo + top <= top * m
  <2>1. z \in Nat \ {0} /\ lo \in Nat
    BY SMT
  <2>2. top * (h + 1) <= top * m
    BY TimesMonotone, SMT
  <2>3. top * (h + 1) = lo + top
    BY SMT
  <2> QED
    BY <2>1, <2>2, <2>3
<1> HIDE DEF lo, z
<1>2. first \in Nat /\ lo <= m * first /\ m * first < lo + m
  <2> DEFINE a == lo + m - 1
  <2>1. a \in Nat
    BY <1>1, SMT
  <2>3. first = a \div m
    OBVIOUS
  <2>0. a = lo + m - 1
    OBVIOUS
  <2> HIDE DEF a, first
  <2>2. a = m * (a \div m) + (a % m) /\ a % m \in 0 .. m - 1 /\ a \div m \in Int
    BY <2>1, DivMod, SMT
  <2>4. a \div m >= 0
    BY <2>1, SMT
  <2> QED
    BY <1>1, <2>0, <2>2, <2>3, <2>4, SMT
<1> HIDE DEF first
\* In the interval, in its beginning.
<1>3. \A x \in Nat : x \div top = h /\ x % top < z <=> lo <= x /\ x < lo + z
  <2> SUFFICES ASSUME NEW x \in Nat
               PROVE  x \div top = h /\ x % top < z <=> lo <= x /\ x < lo + z
    OBVIOUS
  <2>1. x = top * (x \div top) + (x % top) /\ x % top \in 0 .. top - 1 /\ x \div top \in Int
    BY DivMod
  <2>2. ASSUME x \div top = h, x % top < z PROVE lo <= x /\ x < lo + z
    <3>1. x = lo + (x % top)
      BY <2>1, <2>2 DEF lo
    <3> QED
      BY <1>1, <2>1, <2>2, <3>1, SMT
  <2>3. ASSUME lo <= x, x < lo + z PROVE x \div top = h /\ x % top < z
    <3>1. x - lo \in 0 .. top - 1 /\ x - lo < z
      BY <1>1, <2>3, SMT
    <3>2. x = top * h + (x - lo)
      BY <1>1, SMT DEF lo
    <3>3. (top * h + (x - lo)) % top = x - lo /\ (top * h + (x - lo)) \div top = h
      <4>1. h \in Int
        BY SMT
      <4> QED
        BY <3>1, <4>1, DivModOf, Zenon
    <3> QED
      BY <3>1, <3>2, <3>3, Zenon
  <2> QED
    BY <2>2, <2>3
<1>4. ASSUME NEW v \in Int PROVE lo <= v * m <=> first <= v
  <2>1. ASSUME first <= v PROVE lo <= v * m
    <3>1. m * first <= m * v
      BY <1>2, <2>1, TimesMonotone, SMT
    <3> QED
      BY <1>1, <1>2, <3>1, SMT
  <2>2. ASSUME v <= first - 1 PROVE v * m < lo
    <3>1. m * v <= m * (first - 1)
      BY <1>2, <2>2, TimesMonotone, SMT
    <3>2. m * (first - 1) = m * first - m
      BY <1>2, SMT
    <3> QED
      BY <1>1, <1>2, <3>1, <3>2, SMT
  <2> QED
    BY <1>1, <1>2, <2>1, <2>2, SMT
<1>5. ASSUME NEW v \in Int PROVE v * m < lo + z <=> v <= first + q - 1
  <2>1. (v - q) * m = v * m - z
    BY SMT DEF z
  <2>2. lo <= (v - q) * m <=> first <= v - q
    BY <1>4, SMT
  <2> QED
    BY <1>1, <1>2, <2>1, <2>2, SMT
<1>6. ASSUME NEW v \in Nat, v * m < lo + z PROVE v <= top - 1
  <2>1. CASE v >= top
    <3>1. m * top <= m * v
      BY <2>1, TimesMonotone, SMT
    <3> QED
      BY <1>1, <1>6, <3>1, SMT
  <2> QED
    BY <2>1, SMT
<1>7. ASSUME NEW v \in 0 .. top - 1
      PROVE  (v * m) \div top = h /\ (v * m) % top < z <=> v \in first .. first + q - 1
  <2>1. v * m \in Nat /\ v \in Int
    BY SMT
  <2> QED
    BY <1>2, <1>3, <1>4, <1>5, <2>1, SMT
<1>8. first .. first + q - 1 \subseteq 0 .. top - 1
  <2> SUFFICES ASSUME NEW v \in first .. first + q - 1 PROVE v \in 0 .. top - 1
    OBVIOUS
  <2>1. v \in Nat /\ v \in Int /\ v <= first + q - 1
    BY <1>2, SMT
  <2>2. v * m < lo + z
    BY <1>5, <2>1
  <2> QED
    BY <1>6, <2>1, <2>2, SMT
<1>9. {v \in 0 .. top - 1 : (v * m) \div top = h /\ (v * m) % top < z}
        = first .. first + q - 1
  BY <1>7, <1>8, Zenon
<1>10. /\ first \in Int /\ first + q - 1 \in Int /\ ~(first > first + q - 1)
       /\ (first + q - 1) - first + 1 = q
  BY <1>2, SMT
<1>11. IsFiniteSet(first .. first + q - 1) /\ Cardinality(first .. first + q - 1) = q
  BY <1>10, FS_Interval, Zenon
<1> QED
  BY <1>9, <1>11, Zenon DEF z, AcceptedAt

\* All m intervals have as many such words: q each, m * q together.
LEMMA AllIntervals ==
  ASSUME NEW top \in Nat \ {0}, NEW m \in Nat \ {0}, NEW q \in Nat \ {0}, q * m <= top
  PROVE  /\ \A h \in 0 .. m - 1 : Cardinality(AcceptedAt(top, m, q * m, h)) = q
         /\ Cardinality(Accepted(top, m, q * m)) = q * m
<1> DEFINE Words == 0 .. top - 1
           hi(v) == (v * m) \div top
           low(v) == (v * m) % top < q * m
           At(h) == {v \in Words : hi(v) = h /\ low(v)}
           Upto(h) == {v \in Words : hi(v) < h /\ low(v)}
<1>1. ASSUME NEW h \in 0 .. m - 1
      PROVE  IsFiniteSet(At(h)) /\ Cardinality(At(h)) = q
  <2>1. /\ IsFiniteSet(AcceptedAt(top, m, q * m, h))
        /\ Cardinality(AcceptedAt(top, m, q * m, h)) = q
    BY OneInterval, ZenonT(30)
  <2> QED
    BY <2>1, Zenon DEF AcceptedAt
<1>2. \A v \in Words : hi(v) \in 0 .. m - 1
  <2> SUFFICES ASSUME NEW v \in Words PROVE hi(v) \in 0 .. m - 1
    OBVIOUS
  <2>1. v * m \in Nat /\ v * m < top * m
    <3>1. m * v <= m * (top - 1)
      BY TimesMonotone, SMT
    <3>2. m * (top - 1) = top * m - m
      BY SMT
    <3> QED
      BY <3>1, <3>2, SMT
  <2>2. v * m \in 0 .. top * m - 1
    BY <2>1, SMT
  <2> QED
    BY <2>2, RowColumn
<1> HIDE DEF hi, low, Words
<1>3. Upto(0) = {}
  BY <1>2, SMT
<1>4. ASSUME NEW h \in 0 .. m - 1, IsFiniteSet(Upto(h)), Cardinality(Upto(h)) = h * q
      PROVE  IsFiniteSet(Upto(h + 1)) /\ Cardinality(Upto(h + 1)) = (h + 1) * q
  <2>1. Upto(h + 1) = Upto(h) \cup At(h) /\ Upto(h) \cap At(h) = {}
    <3>1. \A v \in Words : hi(v) < h + 1 <=> hi(v) < h \/ hi(v) = h
      BY <1>2, SMT
    <3>2. \A v \in Words : ~(hi(v) < h /\ hi(v) = h)
      BY <1>2, SMT
    <3> QED
      BY <3>1, <3>2, Zenon
  <2> HIDE DEF Upto, At
  <2>2. Cardinality(Upto(h) \cap At(h)) = 0
    BY <2>1, FS_EmptySet, Zenon
  <2>3. /\ IsFiniteSet(Upto(h + 1))
        /\ Cardinality(Upto(h + 1)) = h * q + q - Cardinality(Upto(h) \cap At(h))
    BY <1>1, <1>4, <2>1, FS_Union, Zenon
  <2> QED
    BY <2>2, <2>3, SMT
<1>5. IsFiniteSet(Upto(m)) /\ Cardinality(Upto(m)) = m * q
  <2> DEFINE Good(h) == IsFiniteSet(Upto(h)) /\ Cardinality(Upto(h)) = h * q
             Bad == {h \in 0 .. m : ~Good(h)}
  <2>1. Good(0)
    <3>1. 0 * q = 0
      BY SMT
    <3> QED
      BY <1>3, <3>1, FS_EmptySet, Zenon
  <2>2. \A h \in 0 .. m - 1 : Good(h) => Good(h + 1)
    BY <1>4, Zenon
  <2> HIDE DEF Good
  <2>3. Bad = {}
    <3> SUFFICES ASSUME NEW e \in Bad PROVE FALSE
      BY Zenon
    <3>1. Bad \in SUBSET Nat
      BY SMT
    <3>2. PICK b \in Bad : \A k \in Bad : b <= k
      BY <3>1, HasLeast
    <3>3. b # 0 /\ b \in 0 .. m
      BY <2>1, Zenon
    <3>4. b - 1 \in 0 .. m - 1 /\ b - 1 \in 0 .. m /\ ~(b <= b - 1) /\ (b - 1) + 1 = b
      BY <3>3, SMT
    <3>5. Good(b - 1)
      BY <3>2, <3>4, Zenon
    <3>6. Good(b)
      BY <2>2, <3>4, <3>5, Zenon
    <3> QED
      BY <3>2, <3>6, Zenon
  <2>4. m \in 0 .. m
    BY SMT
  <2> QED
    BY <2>3, <2>4, Zenon DEF Good
<1>6. Upto(m) = {v \in Words : low(v)}
  <2>1. \A v \in Words : hi(v) < m
    BY <1>2, SMT
  <2> QED
    BY <2>1, Zenon
<1>7. Cardinality({v \in Words : low(v)}) = q * m
  <2> HIDE DEF Upto
  <2>1. m * q = q * m
    BY SMT
  <2> QED
    BY <1>5, <1>6, <2>1, Zenon
<1> QED
  BY <1>1, <1>7, Zenon DEF Words, hi, low, AcceptedAt, Accepted

-----------------------------------------------------------------------------
\* Powers of two up to that of a word.
LEMMA PowerPositive ==
  ASSUME R!RngAssumption, NEW k \in 0 .. RngW
  PROVE  2 ^ k \in Nat \ {0} /\ 2 ^ (k + 1) = 2 * 2 ^ k
<1>0. RngW \in Nat /\ \A j \in 0 .. RngW : 2 ^ (j + 1) = 2 * 2 ^ j
  BY Zenon DEF R!RngAssumption, R!PowersOfTwo
<1> DEFINE Good(j) == 2 ^ j \in Nat \ {0}
           Bad == {j \in 0 .. RngW : ~Good(j)}
<1>1. Good(0)
  BY SMT
<1>2. ASSUME NEW j \in 0 .. RngW, Good(j) PROVE Good(j + 1)
  <2> DEFINE p == 2 ^ j
  <2>1. p \in Nat \ {0} /\ 2 ^ (j + 1) = 2 * p
    BY <1>0, <1>2
  <2> HIDE DEF p
  <2>2. 2 * p \in Nat \ {0}
    BY <2>1, SMT
  <2> QED
    BY <2>1, <2>2, Zenon
<1> HIDE DEF Good
<1>3. Bad = {}
  <2> SUFFICES ASSUME NEW e \in Bad PROVE FALSE
    BY Zenon
  <2>1. Bad \in SUBSET Nat
    BY SMT
  <2>2. PICK b \in Bad : \A j \in Bad : b <= j
    BY <2>1, HasLeast
  <2>3. b # 0 /\ b \in 0 .. RngW
    BY <1>1, Zenon
  <2>4. b - 1 \in 0 .. RngW /\ ~(b <= b - 1) /\ (b - 1) + 1 = b
    BY <1>0, <2>3, SMT
  <2>5. Good(b - 1)
    BY <2>2, <2>4, Zenon
  <2>6. Good(b)
    BY <1>2, <2>4, <2>5, Zenon
  <2> QED
    BY <2>2, <2>6, Zenon
<1> QED
  BY <1>0, <1>3, Zenon DEF Good

LEMMA PowerProduct ==
  ASSUME R!RngAssumption, NEW k \in 0 .. RngW
  PROVE  2 ^ RngW = 2 ^ (RngW - k) * 2 ^ k
<1>0. RngW \in Nat
  BY SMT DEF R!RngAssumption
<1> DEFINE Good(j) == 2 ^ RngW = 2 ^ (RngW - j) * 2 ^ j
           Bad == {j \in 0 .. RngW : ~Good(j)}
<1>1. Good(0)
  <2> DEFINE p == 2 ^ RngW
  <2>1. p \in Nat \ {0}
    <3>1. RngW \in 0 .. RngW
      BY <1>0, SMT
    <3> QED
      BY <3>1, PowerPositive
  <2>2. RngW - 0 = RngW /\ 2 ^ 0 = 1
    BY <1>0, SMT
  <2> HIDE DEF p
  <2>3. p = p * 1
    BY <2>1, SMT
  <2> QED
    BY <2>2, <2>3, Zenon DEF p
<1>2. ASSUME NEW j \in 0 .. RngW - 1, Good(j) PROVE Good(j + 1)
  <2> DEFINE p == 2 ^ (RngW - (j + 1))
             r == 2 ^ j
  <2>1. /\ RngW - (j + 1) \in 0 .. RngW /\ j \in 0 .. RngW
        /\ RngW - j = (RngW - (j + 1)) + 1
    BY <1>0, SMT
  <2>2. /\ p \in Nat /\ r \in Nat
        /\ 2 ^ (RngW - j) = 2 * p /\ 2 ^ (j + 1) = 2 * r
    BY <2>1, PowerPositive
  <2>3. 2 ^ RngW = (2 * p) * r
    BY <1>2, <2>2, Zenon
  <2>4. p * (2 * r) = (2 * p) * r
    <3> HIDE DEF p, r
    <3> QED
      BY <2>2, SMT
  <2> QED
    BY <2>2, <2>3, <2>4, Zenon
<1> HIDE DEF Good
<1>3. Bad = {}
  <2> SUFFICES ASSUME NEW e \in Bad PROVE FALSE
    BY Zenon
  <2>1. Bad \in SUBSET Nat
    BY SMT
  <2>2. PICK b \in Bad : \A j \in Bad : b <= j
    BY <2>1, HasLeast
  <2>3. b # 0 /\ b \in 0 .. RngW
    BY <1>1, Zenon
  <2>4. b - 1 \in 0 .. RngW - 1 /\ b - 1 \in 0 .. RngW /\ ~(b <= b - 1) /\ (b - 1) + 1 = b
    BY <1>0, <2>3, SMT
  <2>5. Good(b - 1)
    BY <2>2, <2>4, Zenon
  <2>6. Good(b)
    BY <1>2, <2>4, <2>5, Zenon
  <2> QED
    BY <2>2, <2>6, Zenon
<1> QED
  BY <1>3, Zenon DEF Good

\* fd_ulong_find_msb of a bound.
LEMMA MsbIs ==
  ASSUME R!RngAssumption, NEW m \in 1 .. 2 ^ RngW - 1
  PROVE  R!Msb(m) \in 0 .. RngW - 1 /\ 2 ^ R!Msb(m) <= m /\ m < 2 ^ (R!Msb(m) + 1)
<1>0. RngW \in Nat /\ 2 ^ RngW \in Int /\ m \in Int /\ m >= 1 /\ m < 2 ^ RngW
  BY SMT DEF R!RngAssumption
<1> DEFINE Above == {k \in 0 .. RngW : m < 2 ^ k}
<1>1. RngW \in Above /\ Above \in SUBSET Nat
  BY <1>0, SMT
<1>2. PICK k \in Above : \A j \in Above : k <= j
  BY <1>1, HasLeast
<1>3. k # 0
  <2>1. 2 ^ 0 = 1
    BY SMT
  <2>2. ~(m < 1)
    BY <1>0, SMT
  <2> QED
    BY <2>1, <2>2, Zenon
<1>4. /\ k - 1 \in 0 .. RngW - 1 /\ k - 1 \in 0 .. RngW
      /\ ~(k <= k - 1) /\ (k - 1) + 1 = k
  BY <1>0, <1>3, SMT
<1>5. ~(m < 2 ^ (k - 1))
  BY <1>2, <1>4, Zenon
<1>6. 2 ^ (k - 1) <= m
  <2> DEFINE p == 2 ^ (k - 1)
  <2>1. p \in Nat
    BY <1>4, PowerPositive
  <2> HIDE DEF p
  <2>2. ~(m < p) => p <= m
    BY <1>0, <2>1, SMT
  <2> QED
    BY <1>5, <2>2, Zenon DEF p
<1>7. \E b \in 0 .. RngW - 1 : 2 ^ b <= m /\ m < 2 ^ (b + 1)
  BY <1>4, <1>6, Zenon
<1> QED
  BY <1>7, Zenon DEF R!Msb

\* The words that are accepted: a multiple of the bound, and at least half.
LEMMA ZoneIs ==
  ASSUME R!RngAssumption, NEW m \in 1 .. 2 ^ RngW - 1, NEW md
  PROVE  \E q \in Nat \ {0} : /\ R!Zone(m, md) = q * m - 1
                              /\ q * m <= 2 ^ RngW /\ 2 ^ RngW <= 2 * (q * m)
<1> DEFINE top == 2 ^ RngW
<1>0. top \in Nat \ {0} /\ m \in Nat \ {0} /\ m < top /\ RngW \in Nat
  <2>1. RngW \in Nat /\ RngW \in 0 .. RngW
    BY SMT DEF R!RngAssumption
  <2>2. top \in Nat \ {0}
    BY <2>1, PowerPositive
  <2> HIDE DEF top
  <2>3. m \in 1 .. top - 1
    BY DEF top
  <2> QED
    BY <2>1, <2>2, <2>3, SMT
<1>1. CASE md = "mod"
  <2>1. R!Zone(m, md) = (top - 1) - (((top - 1) - m + 1) % m)
    BY <1>1, Zenon DEF R!Zone, R!ULONG_MAX
  <2> HIDE DEF top
  <2> DEFINE a == top - m
             d == a \div m
             r == a % m
  <2>2. a \in Nat /\ a = (top - 1) - m + 1
    BY <1>0, SMT
  <2>3. r = ((top - 1) - m + 1) % m
    BY <2>2, Zenon
  <2>4. d \in Nat /\ a = m * d + r /\ r \in 0 .. m - 1
    <3> HIDE DEF a
    <3>1. a = m * (a \div m) + (a % m) /\ a % m \in 0 .. m - 1 /\ a \div m \in Int
      BY <1>0, <2>2, DivMod
    <3>2. a \div m >= 0
      BY <1>0, <2>2, SMT
    <3> QED
      BY <3>1, <3>2, SMT
  <2>5. top - m = m * d + r
    BY <2>4
  <2> HIDE DEF a, d, r
  <2>6. (d + 1) * m = m * d + m /\ m * d \in Nat
    BY <1>0, <2>4, SMT
  <2> DEFINE e == m * d
  <2>7. /\ (d + 1) * m = e + m /\ e \in Nat /\ top - m = e + r /\ r \in 0 .. m - 1
    BY <2>4, <2>5, <2>6
  <2> HIDE DEF e
  <2>8. /\ (top - 1) - r = (d + 1) * m - 1
        /\ (d + 1) * m <= top /\ top <= 2 * ((d + 1) * m)
    BY <1>0, <2>7, SMT
  <2>9. d + 1 \in Nat \ {0}
    BY <2>4, SMT
  <2> QED
    BY <2>1, <2>3, <2>8, <2>9, Zenon DEF top
<1>2. CASE md # "mod"
  <2> DEFINE b == R!Msb(m)
             p == 2 ^ (RngW - 1 - b)
             u == 2 ^ b
  <2>1. R!Zone(m, md) = ((m * p) % top) - 1
    BY <1>2, Zenon DEF R!Zone
  <2>2. b \in 0 .. RngW - 1 /\ u <= m /\ m < 2 ^ (b + 1)
    BY MsbIs
  <2> HIDE DEF b
  <2>3. /\ b \in 0 .. RngW /\ b + 1 \in 0 .. RngW /\ RngW - 1 - b \in 0 .. RngW
        /\ RngW - (b + 1) = RngW - 1 - b
    BY <1>0, <2>2, SMT
  <2>4. /\ u \in Nat \ {0} /\ p \in Nat \ {0} /\ 2 ^ (b + 1) = 2 * u
    BY <2>3, PowerPositive
  <2>5. top = p * 2 ^ (b + 1)
    BY <2>3, PowerProduct, Zenon
  <2>6. top = p * (2 * u) /\ u <= m /\ m < 2 * u
    BY <2>2, <2>4, <2>5, Zenon
  <2> HIDE DEF top, p, u
  <2>7. p * u <= p * m /\ p * (m + 1) <= p * (2 * u)
    <3>1. m + 1 <= 2 * u
      BY <1>0, <2>4, <2>6, SMT
    <3> QED
      BY <1>0, <2>4, <2>6, <3>1, TimesMonotone, SMT
  <2>8. p * (m + 1) = p * m + p /\ p * (2 * u) = 2 * (p * u) /\ m * p = p * m
        /\ p * m \in Nat /\ p * u \in Nat
    BY <1>0, <2>4, SMT
  <2>9. /\ m * p \in Nat /\ m * p < top /\ p * m <= top /\ top <= 2 * (p * m)
    <3> DEFINE pm == p * m
               pu == p * u
    <3>1. /\ pm \in Nat /\ pu \in Nat /\ pu <= pm /\ pm + p <= top /\ top = 2 * pu /\ m * p = pm
      BY <2>6, <2>7, <2>8
    <3> HIDE DEF pm, pu
    <3>2. pm < top /\ pm <= top /\ top <= 2 * pm
      BY <1>0, <2>4, <3>1, SMT
    <3> QED
      BY <3>1, <3>2, Zenon DEF pm
  <2>10. (m * p) % top = m * p
    BY <1>0, <2>9, ModSmall
  <2> QED
    BY <2>1, <2>4, <2>8, <2>9, <2>10, Zenon DEF top
<1> QED
  BY <1>1, <1>2

\* What RollIsFair says of a bound.
LEMMA Fair ==
  ASSUME R!RngAssumption, bound # 0 => bound \in Ns PROVE R!Uniform /\ R!HalfAccepted
<1> SUFFICES ASSUME bound \in Ns
             PROVE  /\ \A h \in 0 .. bound - 1 :
                         LET hits(g) == R!Cardinality({v \in R!Words :
                               R!Hi(v, bound) = g /\ R!Lo(v, bound) <= R!Zone(bound, mode)})
                         IN  hits(h) = hits(0) /\ hits(h) > 0
                    /\ 2 * R!Cardinality({v \in R!Words :
                               R!Lo(v, bound) <= R!Zone(bound, mode)}) >= 2 ^ RngW
  BY Zenon DEF R!Uniform, R!HalfAccepted
<1> DEFINE top == 2 ^ RngW
<1>1. bound \in 1 .. 2 ^ RngW - 1 /\ RngW \in 0 .. RngW
  <2>1. Ns \subseteq 1 .. 2 ^ RngW - 1 /\ RngW \in Nat
    BY Zenon DEF R!RngAssumption
  <2> QED
    BY <2>1, SMT
<1>2. top \in Nat \ {0} /\ bound \in Nat \ {0}
  <2>1. top \in Nat \ {0}
    BY <1>1, PowerPositive
  <2> QED
    BY <1>1, <2>1, SMT
<1>3. PICK q \in Nat \ {0} : /\ R!Zone(bound, mode) = q * bound - 1
                             /\ q * bound <= top /\ top <= 2 * (q * bound)
  BY <1>1, ZoneIs
<1>4. \A v \in 0 .. top - 1 : R!Lo(v, bound) <= R!Zone(bound, mode)
                                <=> (v * bound) % top < q * bound
  <2> SUFFICES ASSUME NEW v \in 0 .. top - 1
               PROVE  R!Lo(v, bound) <= q * bound - 1 <=> (v * bound) % top < q * bound
    BY <1>3, Zenon
  <2>1. R!Lo(v, bound) = (v * bound) % top
    BY Zenon DEF R!Lo
  <2> HIDE DEF top
  <2>2. (v * bound) % top \in Int /\ q * bound \in Int
    BY <1>2, SMT
  <2> QED
    BY <2>1, <2>2, SMT
<1>5. R!Words = 0 .. top - 1 /\ \A v : R!Hi(v, bound) = (v * bound) \div top
  BY Zenon DEF R!Words, R!Hi
<1> HIDE DEF top
<1>6. /\ \A h \in 0 .. bound - 1 : Cardinality(AcceptedAt(top, bound, q * bound, h)) = q
      /\ Cardinality(Accepted(top, bound, q * bound)) = q * bound
  BY <1>2, <1>3, AllIntervals, Zenon
<1>7. /\ \A h : {v \in R!Words : R!Hi(v, bound) = h /\ R!Lo(v, bound) <= R!Zone(bound, mode)}
                  = AcceptedAt(top, bound, q * bound, h)
      /\ {v \in R!Words : R!Lo(v, bound) <= R!Zone(bound, mode)}
           = Accepted(top, bound, q * bound)
  BY <1>4, <1>5, Zenon DEF AcceptedAt, Accepted
<1>8. \A h \in 0 .. bound - 1 :
        R!Cardinality({v \in R!Words :
          R!Hi(v, bound) = h /\ R!Lo(v, bound) <= R!Zone(bound, mode)}) = q
  BY <1>6, <1>7, SameCardinality, Zenon
<1>9. R!Cardinality({v \in R!Words : R!Lo(v, bound) <= R!Zone(bound, mode)}) = q * bound
  BY <1>6, <1>7, SameCardinality, Zenon
<1>10. 0 \in 0 .. bound - 1 /\ q > 0
  BY <1>2, SMT
<1>11. 2 * (q * bound) >= top
  BY <1>2, <1>3, SMT
<1> QED
  BY <1>8, <1>9, <1>10, <1>11, Zenon DEF top

\* Every number below the bound is rolled for as many words as every other one,
\* and at least half of the words are accepted, for words of any width, every
\* bound and both ways to choose the zone.
THEOREM RollIsFairHolds == Spec => []RollIsFair
<1> DEFINE Inv == part = "rng" => (bound # 0 => bound \in Ns)
<1>1. Init => Inv
  BY Zenon DEF Init, R!Init
<1>2. Inv /\ [Next]_vars => Inv'
  <2>1. ASSUME Inv, UNCHANGED vars PROVE Inv'
    BY <2>1, Zenon DEF vars, rngVars
  <2>2. ASSUME Inv, Next PROVE Inv'
    <3>1. ASSUME part = "rng" PROVE bound' # 0 => bound' \in Ns
      <4>1. R!Next
        BY <2>2, <3>1, Zenon DEF Next
      <4>2. bound' = bound \/ bound' = 0 \/ bound' \in Ns
        BY <4>1, Zenon DEF R!Next, R!Start, R!Call, R!Attempt, R!vars
      <4> QED
        BY <2>2, <3>1, <4>2, Zenon
    <3>2. part' = part
      BY <2>2, Zenon DEF Next
    <3> QED
      BY <3>1, <3>2, Zenon
  <2> QED
    BY <2>1, <2>2
<1>3. Inv => RollIsFair
  BY ProgramsAssumption, Fair, Zenon DEF RollIsFair
<1> QED
  BY <1>1, <1>2, <1>3, PTL DEF Spec
=============================================================================
