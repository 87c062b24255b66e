---------------------------------- MODULE Pod ----------------------------------
(***************************************************************************)
(* Pods (fd_pod.h): key-val pairs of several types serialised in a block   *)
(* of memory, where a val may be a pod again.  A pod is known by the       *)
(* address of its first byte; its header is three integers of the same     *)
(* width - max, used and cnt - and each pair is                            *)
(*                                                                         *)
(*     key size | key | type | val size | val                              *)
(*                                                                         *)
(* with integers in svw form, as module Svw has them, errors included:     *)
(* readers take sizes from first bytes, and where a size is not legible    *)
(* they go on in the wrong place.  What they find behind the block is      *)
(* taken to be 0.                                                          *)
(* fd_pod_alloc and fd_pod_query are not in the repository: they are       *)
(* modelled from their comments and from how the functions here use them.  *)
(***************************************************************************)
EXTENDS Svw, Sequences

CONSTANTS RootMax,   \* bytes of the outermost pod
          SubMax,    \* bytes of a subpod
          Keys,      \* keys, each one byte that is not 0
          Inputs,    \* pairs of a type and a val that the user inserts
          SizeBits,  \* bits of the words that sizes are
          MaxPairs   \* BOUND: pairs that are inserted, over all

\* The types, by how their vals are encoded, and their FD_POD_VAL_TYPE_*.
SUBPOD == 0   BUF == 1   CSTR == 2   UCHAR == 9
SHORT == 5    INT == 6   LONG == 7   INT128 == 8
USHORT == 10  UINT == 11 ULONG == 12 UINT128 == 13
Raw == {SUBPOD, BUF, CSTR, UCHAR}
Unsigned == {USHORT, UINT, ULONG}
Signed == {SHORT, INT, LONG}

VARIABLES
  mem,
  pairs,   \* what was put into each pod that is alive
  iter,    \* the iterator: pod, cursor and stop
  seen,    \* the pairs that the iterator has shown
  made     \* how many pairs have been inserted

vars == <<mem, pairs, iter, seen, made>>

Null == -1
NoIter == [pod |-> Null, cursor |-> 0, stop |-> 0]

\* A word and the number that it stands for, as in module Bits.
Num(x) ==
  LET s[n \in 0 .. SizeBits] ==
        IF n = 0 THEN 0 ELSE s[n - 1] + (IF n - 1 \in x THEN 2 ^ (n - 1) ELSE 0)
  IN  s[SizeBits]
Word(n) == {i \in 0 .. SizeBits - 1 : (n \div 2 ^ i) % 2 = 1}

-----------------------------------------------------------------------------
(* The header *)

HdrCsz(m, b) == DecSz(m, b)
HdrField(m, b, i) == Num(DecFixed(m, b + i * HdrCsz(m, b), HdrCsz(m, b)))
PodMax(m, b) == HdrField(m, b, 0)
PodUsed(m, b) == HdrField(m, b, 1)
PodCnt(m, b) == HdrField(m, b, 2)
PodAvail(m, b) == PodMax(m, b) - PodUsed(m, b)

SetField(m, b, csz, i, n) == EncFixed(m, b + i * csz, csz, Word(n))

\* fd_pod_reset; fd_pod_new writes max too, and chooses the width by it.
ResetAt(m, b) ==
  LET csz == HdrCsz(m, b) IN
  SetField(SetField(m, b, csz, 1, 3 * csz), b, csz, 2, 0)
NewAt(m, b, max) ==
  LET csz == EncSz(Word(max)) IN
  SetField(SetField(SetField(m, b, csz, 0, max), b, csz, 1, 3 * csz), b, csz, 2, 0)

-----------------------------------------------------------------------------
(* Vals.  A raw val is its bytes, the others are words. *)

XorSet(x, y) == (x \cup y) \ (x \cap y)
\* fd_long_zz_enc and _dec for n bits
ZzEnc(x, n) ==
  XorSet(IF n - 1 \in x THEN 0 .. n - 1 ELSE {}, Low(Shl(x, 1), n))
ZzDec(x, n) == XorSet(Shr(x, 1), IF 0 \in x THEN 0 .. n - 1 ELSE {})

Svw1(x) == [sz |-> EncSz(x), w |-> Enc({}, 0, x)]

\* Mutant: the upper half goes where a lower half of one byte would end.
SvwPairNear(x) ==
  LET lo == Low(x, 64)  hi == Shr(x, 64) IN
  [sz |-> EncSz(lo) + EncSz(hi), w |-> Enc(Enc({}, 0, lo), 1, hi)]

\* 128 bits are two integers, the lower half first.
SvwPair(x) ==
  LET lo == Low(x, 64)  hi == Shr(x, 64) IN
  [sz |-> EncSz(lo) + EncSz(hi), w |-> Enc(Enc({}, 0, lo), EncSz(lo), hi)]

EncVal(type, val) ==
  CASE type \in Raw -> val
    [] type \in Unsigned -> Svw1(val)
    [] type \in Signed -> Svw1(ZzEnc(val, 64))
    [] type = UINT128 -> SvwPair(val)
    [] type = INT128 -> SvwPair(ZzEnc(val, 128))

\* Two integers in a row.
DecPair(m, b) == DecSvw(m, b) \cup Shl(DecSvw(m, b + DecSz(m, b)), 64)

DecVal(m, at, sz, type) ==
  CASE type \in Raw -> [sz |-> sz, w |-> Load(m, at, sz)]
    [] type \in Unsigned -> DecSvw(m, at)
    [] type \in Signed -> ZzDec(DecSvw(m, at), 64)
    [] type = UINT128 -> DecPair(m, at)
    [] type = INT128 -> ZzDec(DecPair(m, at), 128)

-----------------------------------------------------------------------------
(* What a user has to see to *)

IsInt(x, n) == x \subseteq 0 .. n - 1
IsSize(n) == n \in 0 .. 2 ^ SizeBits - 1 /\ IsInt(Word(n), 64)

IsInput(type, val) ==
  \/ type \in Raw \ {SUBPOD} /\ val = [sz |-> val.sz, w |-> val.w] /\ IsInt(val.w, 8 * val.sz)
  \/ type \in Unsigned \cup Signed /\ IsInt(val, 64)
  \/ type \in {UINT128, INT128} /\ IsInt(val, 128)

\* Integers that fd_ulong_svw_dec reads right, and sizes that are such.
Tells(x) == Legible(x, EncSz(x))
SizeTells(n) == Tells(Word(n))

\* A pod is no smaller than its header (FD_POD_FOOTPRINT_MIN), and its max is
\* legible: else not even the pod's own functions find its header.  Keys are
\* stored in a byte.
PodAssumption ==
  /\ \A max \in {RootMax, SubMax} :
       IsSize(max) /\ SizeTells(max) /\ 3 * EncSz(Word(max)) <= max
  /\ IsSize(2) /\ MaxPairs \in Nat
  /\ \A key \in Keys : key \in 1 .. 255
  /\ \A in \in Inputs : /\ IsInput(in.type, in.val)
                        /\ IsSize(EncVal(in.type, in.val).sz)

-----------------------------------------------------------------------------
(* Reading pairs *)

\* fd_pod_iter_info: the pair at the cursor.
Info(m, cursor) ==
  LET ksz == DecSz(m, cursor)
      key_sz == Num(DecFixed(m, cursor, ksz))
      key == cursor + ksz
      type == Num(Load(m, key + key_sz, 1))
      v == key + key_sz + 1
      vsz == DecSz(m, v)
  IN [key |-> Num(Load(m, key, 1)), type |-> type,
      sz |-> Num(DecFixed(m, v, vsz)), at |-> v + vsz]

\* fd_pod_iter_next: over the key, the type and the val.
Skip(m, cursor) ==
  LET ksz == DecSz(m, cursor)
      v == cursor + ksz + Num(DecFixed(m, cursor, ksz)) + 1
      vsz == DecSz(m, v)
  IN  v + vsz + Num(DecFixed(m, v, vsz))

First(m, b) == b + 3 * HdrCsz(m, b)
Stop(m, b) == b + PodUsed(m, b)

\* The cursors of all pairs of a pod.
Cursors(m, b) ==
  LET at[k \in 1 .. PodCnt(m, b)] == IF k = 1 THEN First(m, b) ELSE Skip(m, at[k - 1])
  IN  at

\* fd_pod_query for a single key: the pair, or none.
Find(m, b, key) ==
  {Info(m, Cursors(m, b)[k]) : k \in {i \in 1 .. PodCnt(m, b) :
     Info(m, Cursors(m, b)[i]).key = key}}

\* fd_pod_query_[type]: def if there is no such key or it has another type.
QueryVal(m, b, key, type, def) ==
  LET hits == {f \in Find(m, b, key) : f.type = type} IN
  IF hits = {} THEN def
  ELSE LET f == CHOOSE f \in hits : TRUE IN DecVal(m, f.at, f.sz, type)

-----------------------------------------------------------------------------
(* Operations *)

Init ==
  /\ \E garbage \in {{}, 0 .. 8 * RootMax - 1} : mem = NewAt(garbage, 0, RootMax)
  /\ pairs = [b \in {0} |-> <<>>]
  /\ iter = NoIter /\ seen = <<>> /\ made = 0

\* fd_pod_alloc: the pair goes behind the others if there is room for it and
\* no pair has the key; the val is left for the caller to write.
PairSz(val_sz) == 1 + 2 + 1 + EncSz(Word(val_sz)) + val_sz
Alloc(m, b, key, type, val_sz) ==
  LET at == Stop(m, b)  csz == HdrCsz(m, b)
      head == Store(Enc(m, at, Word(2)), at + 1, 3, Word(key) \cup Shl(Word(type), 16))
      whole == Enc(head, at + 4, Word(val_sz))
  IN  SetField(SetField(whole, b, csz, 1, PodUsed(m, b) + PairSz(val_sz)),
               b, csz, 2, PodCnt(m, b) + 1)
Room4(m, b, key, val_sz) == Find(m, b, key) = {} /\ PairSz(val_sz) <= PodAvail(m, b)
ValAt(m, b, val_sz) == Stop(m, b) + 4 + EncSz(Word(val_sz))

\* fd_pod_insert and fd_pod_insert_[type]; a failed one returns 0.
Insert(b, key, type, val) ==
  LET e == EncVal(type, val) IN
  /\ Room4(mem, b, key, e.sz)
  /\ mem' = Store(Alloc(mem, b, key, type, e.sz), ValAt(mem, b, e.sz), e.sz, e.w)
  /\ pairs' = [pairs EXCEPT ![b] = Append(@, [key |-> key, type |-> type, val |-> val])]
  /\ iter' = NoIter /\ seen' = <<>> /\ made' = made + 1

\* fd_pod_alloc_subpod: a new pod in the val.
AllocSubpod(b, key) ==
  LET at == ValAt(mem, b, SubMax) IN
  /\ Room4(mem, b, key, SubMax)
  /\ mem' = NewAt(Alloc(mem, b, key, SUBPOD, SubMax), at, SubMax)
  /\ pairs' = [p \in DOMAIN pairs \cup {at} |->
       CASE p = b -> Append(pairs[b], [key |-> key, type |-> SUBPOD, val |-> at])
         [] p = at -> <<>>
         [] OTHER -> pairs[p]]
  /\ iter' = NoIter /\ seen' = <<>> /\ made' = made + 1

\* fd_pod_reset: all pairs are gone, the subpods among them too.
Reset(b) ==
  /\ mem' = ResetAt(mem, b)
  /\ pairs' = [p \in {q \in DOMAIN pairs : ~(b < q /\ q < b + PodMax(mem, b))} |->
       IF p = b THEN <<>> ELSE pairs[p]]
  /\ iter' = NoIter /\ seen' = <<>>
  /\ UNCHANGED made

\* fd_pod_iter_init.  A user that passes NULL is not modelled: there the
\* verification build clears the iterator and then reads the header at NULL.
IterInit(b) ==
  /\ iter' = [pod |-> b, cursor |-> First(mem, b), stop |-> Stop(mem, b)]
  /\ seen' = <<>>
  /\ UNCHANGED <<mem, pairs, made>>

\* Mutant: one pair too many is looked at.
IterDoneLate == iter.cursor > iter.stop

IterDone == iter.cursor >= iter.stop

IterNext ==
  /\ ~IterDone
  /\ seen' = Append(seen, Info(mem, iter.cursor))
  /\ iter' = [iter EXCEPT !.cursor = Skip(mem, iter.cursor)]
  /\ UNCHANGED <<mem, pairs, made>>

Next ==
  \/ \E b \in DOMAIN pairs :
       \/ /\ made < MaxPairs
          /\ \E key \in Keys :
               \/ \E in \in Inputs : Insert(b, key, in.type, in.val)
               \/ AllocSubpod(b, key)
       \/ Reset(b)
       \/ IterInit(b)
  \/ IterNext

Spec == Init /\ [][Next]_vars

-----------------------------------------------------------------------------
(* Properties *)

ValSz(p) == IF p.type = SUBPOD THEN SubMax ELSE EncVal(p.type, p.val).sz

\* What the readers of a pod need: the sizes of all its vals are legible.
SizesTell(b) == \A k \in DOMAIN pairs[b] : SizeTells(ValSz(pairs[b][k]))

\* What the reader of a val needs: the integers in it are legible.
ValTells(type, val) ==
  LET both(x) == Tells(Low(x, 64)) /\ Tells(Shr(x, 64)) IN
  /\ type \in Unsigned => Tells(val)
  /\ type \in Signed => Tells(ZzEnc(val, 64))
  /\ type = UINT128 => both(val)
  /\ type = INT128 => both(ZzEnc(val, 128))

\* Whatever is inserted, and whatever is done to the pods around it and inside
\* it, a pod that is alive keeps its max and counts its pairs.  Where sizes are
\* legible every key is found, none that was not inserted is, and each val
\* that is legible is returned, the others beside it notwithstanding.
HoldsItsPairs ==
  \A b \in DOMAIN pairs :
    /\ PodMax(mem, b) = IF b = 0 THEN RootMax ELSE SubMax
    /\ PodCnt(mem, b) = Len(pairs[b])
    /\ SizesTell(b) =>
         /\ \A k \in DOMAIN pairs[b] :
              LET p == pairs[b][k]  hits == Find(mem, b, p.key) IN
              /\ {<<f.type, f.sz>> : f \in hits} = {<<p.type, ValSz(p)>>}
              /\ p.type = SUBPOD => {f.at : f \in hits} = {p.val}
              /\ p.type # SUBPOD /\ ValTells(p.type, p.val) =>
                   QueryVal(mem, b, p.key, p.type, Null) = p.val
         /\ \A key \in Keys : (\A k \in DOMAIN pairs[b] : pairs[b][k].key # key) =>
              Find(mem, b, key) = {}

\* Nothing is used beyond a pod's max, and what is used is what the pairs
\* and the header take: used is where the last pair ends.
UsedIsTight ==
  \A b \in DOMAIN pairs :
    /\ PodUsed(mem, b) <= PodMax(mem, b)
    /\ SizesTell(b) =>
         Stop(mem, b) = IF pairs[b] = <<>> THEN First(mem, b)
                        ELSE Skip(mem, Cursors(mem, b)[Len(pairs[b])])

\* An iteration of a pod whose sizes are legible shows its pairs, each once and
\* in order, and is done when it has shown them all.
IterationIsComplete ==
  iter.pod # Null /\ SizesTell(iter.pod) =>
    /\ Len(seen) <= Len(pairs[iter.pod])
    /\ \A k \in DOMAIN seen :
         /\ seen[k].key = pairs[iter.pod][k].key
         /\ seen[k].type = pairs[iter.pod][k].type
    /\ IterDone <=> Len(seen) = Len(pairs[iter.pod])
=============================================================================
