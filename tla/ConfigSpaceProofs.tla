------------------------- MODULE ConfigSpaceProofs -------------------------
(***************************************************************************)
(* Proofs about the configuration space (ConfigSpace), for every           *)
(* MAX_TAG_LEN and every set of tag arguments, offsets and sizes.          *)
(***************************************************************************)
EXTENDS ConfigSpace, SequenceTheorems, TLAPS

(***************************************************************************)
(* The inductive invariant.  The tag is fixed at start-up and only a tag  *)
(* parse_tag accepted is stored; what the front-end was offered is what   *)
(* protocol_features answers for that tag (or nothing yet), and it        *)
(* acknowledges only offered features.  So CONFIG is acknowledged only    *)
(* with a tag that passes get_config's expect and assert!s.               *)
(***************************************************************************)
CInv ==
  /\ phase # "crashed"
  /\ phase = "init" => offered = {} /\ tag = NoTag
  /\ offered \in {{}, protocol_features}
  /\ acked \subseteq offered
  /\ tag # NoTag => tag \in Seq(Nat) /\ parse_tag(tag)

LEMMA InitCInv == Init => CInv
BY DEF Init, CInv

LEMMA StartCInv ==
  ASSUME CInv, Start
  PROVE  CInv'
<1>1. /\ phase = "init" /\ offered = {} /\ acked = {}
      /\ UNCHANGED <<offered, acked, read>>
      /\ phase' = "running" \/ phase' = "exited"
  BY DEF Start, CInv
<1>2. tag' # NoTag => tag' \in Seq(Nat) /\ parse_tag(tag')
  <2>1. CASE phase' = "running" /\ UNCHANGED tag
    BY <2>1, <1>1 DEF CInv
  <2>2. CASE \E n \in TagLens : IF parse_tag(Tag(n))
                                  THEN phase' = "running" /\ tag' = Tag(n)
                                  ELSE phase' = "exited" /\ UNCHANGED tag
    <3>1. PICK n \in TagLens : IF parse_tag(Tag(n))
                                 THEN phase' = "running" /\ tag' = Tag(n)
                                 ELSE phase' = "exited" /\ UNCHANGED tag
      BY <2>2
    <3>2. Tag(n) \in Seq(Nat)
      BY RequestAssumption DEF Tag
    <3>3. QED
      BY <3>1, <3>2, <1>1 DEF CInv
  <2>3. QED
    BY <2>1, <2>2 DEF Start
<1>3. QED
  BY <1>1, <1>2 DEF CInv

LEMMA GetProtocolFeaturesCInv ==
  ASSUME CInv, GetProtocolFeatures
  PROVE  CInv'
<1>1. /\ phase = "running" /\ UNCHANGED <<phase, tag, acked>>
      /\ offered' = protocol_features
  BY DEF GetProtocolFeatures
<1>2. acked \subseteq protocol_features
  BY DEF CInv
<1>3. QED
  BY <1>1, <1>2 DEF CInv, protocol_features

LEMMA SetProtocolFeaturesCInv ==
  ASSUME CInv, SetProtocolFeatures
  PROVE  CInv'
BY DEF SetProtocolFeatures, CInv, protocol_features

\* An acknowledged CONFIG means a tag that get_config accepts.
LEMMA ConfigAckedNoPanic ==
  ASSUME CInv, "CONFIG" \in acked
  PROVE  ~get_config_panics
<1>1. "CONFIG" \in protocol_features
  BY DEF CInv
<1>2. tag # NoTag
  BY <1>1 DEF protocol_features, BaseFeatures
<1>3. tag \in Seq(Nat) /\ tag # <<>> /\ Len(tag) <= MAX_TAG_LEN
  BY <1>2 DEF CInv, parse_tag
<1>4. QED
  BY <1>2, <1>3, MaxTagLenAssumption DEF get_config_panics

LEMMA GetConfigCInv ==
  ASSUME CInv, GetConfig
  PROVE  CInv'
<1>1. ~get_config_panics
  BY ConfigAckedNoPanic DEF GetConfig
<1>2. UNCHANGED <<phase, tag, offered, acked>>
  BY <1>1 DEF GetConfig
<1>3. QED
  BY <1>2 DEF CInv, protocol_features

LEMMA NextCInv == CInv /\ [Next]_vars => CInv'
<1> SUFFICES ASSUME CInv, [Next]_vars PROVE CInv'
  OBVIOUS
<1>1. CASE UNCHANGED vars
  BY <1>1 DEF vars, CInv, protocol_features
<1>2. QED
  BY <1>1, StartCInv, GetProtocolFeaturesCInv, SetProtocolFeaturesCInv,
     GetConfigCInv DEF Next

(* GET_CONFIG never panics the daemon (NoConfigPanic), for every           *)
(* MAX_TAG_LEN and every --tag argument: parse_tag's bounds at start-up    *)
(* and protocol_features offering CONFIG only with a tag discharge the     *)
(* expect and the assert!s of get_config.                                  *)
THEOREM ConfigNeverPanics == Spec => []NoConfigPanic
<1>1. CInv => NoConfigPanic
  BY DEF CInv, NoConfigPanic
<1>2. QED
  BY <1>1, InitCInv, NextCInv, PTL DEF Spec

-----------------------------------------------------------------------------
(***************************************************************************)
(* The bytes of get_config, for every tag, offset and size.                *)
(***************************************************************************)

\* num_request_queues = 1 as le32
LEMMA Le32One == Le32(REQUEST_QUEUES) = <<1, 0, 0, 0>>
BY DEF Le32, REQUEST_QUEUES

\* byte d of num_request_queues
LEMMA Le32Byte ==
  ASSUME NEW d \in 0..3
  PROVE  (REQUEST_QUEUES \div 256^d) % 256 = <<1, 0, 0, 0>>[d + 1]
<1>1. Le32(REQUEST_QUEUES)[d + 1] = (REQUEST_QUEUES \div 256^d) % 256
  BY DEF Le32
<1>2. QED
  BY <1>1, Le32One

\* The byte view of VirtioFsConfig is the layout of virtio 5.11.4.
LEMMA ConfigBytes ==
  ASSUME NEW t \in Seq(Nat), Len(t) <= MAX_TAG_LEN
  PROVE  /\ config(t) \in Seq(Nat)
         /\ Len(config(t)) = MAX_TAG_LEN + 4
         /\ \A j \in 1..MAX_TAG_LEN + 4 : config(t)[j] = LayoutByte(t, j - 1)
<1> DEFINE Z == Zeros(MAX_TAG_LEN - Len(t))
           TZ == t \o Z
           Q == <<1, 0, 0, 0>>
<1>1. Z \in Seq(Nat) /\ Len(Z) = MAX_TAG_LEN - Len(t)
      /\ \A i \in 1..Len(Z) : Z[i] = 0
  BY MaxTagLenAssumption DEF Zeros
<1>2. /\ TZ \in Seq(Nat) /\ Len(TZ) = MAX_TAG_LEN
      /\ \A i \in 1..MAX_TAG_LEN : TZ[i] = IF i <= Len(t) THEN t[i] ELSE 0
  BY <1>1, ConcatProperties, MaxTagLenAssumption
<1>3. config(t) = TZ \o Q
  BY Le32One DEF config
<1>4. Q \in Seq(Nat) /\ Len(Q) = 4
  OBVIOUS
<1>5. /\ config(t) \in Seq(Nat)
      /\ Len(config(t)) = MAX_TAG_LEN + 4
      /\ \A j \in 1..MAX_TAG_LEN + 4 :
           config(t)[j] = IF j <= MAX_TAG_LEN THEN TZ[j] ELSE Q[j - MAX_TAG_LEN]
  BY <1>2, <1>3, <1>4, ConcatProperties
<1>6. ASSUME NEW j \in 1..MAX_TAG_LEN + 4
      PROVE  config(t)[j] = LayoutByte(t, j - 1)
  <2>1. CASE j <= Len(t)
    <3>1. LayoutByte(t, j - 1) = t[j]
      BY <2>1, MaxTagLenAssumption DEF LayoutByte
    <3>2. config(t)[j] = TZ[j]
      BY <2>1, <1>5, MaxTagLenAssumption
    <3>3. TZ[j] = t[j]
      BY <2>1, <1>2, MaxTagLenAssumption
    <3>4. QED
      BY <3>1, <3>2, <3>3
  <2>2. CASE Len(t) < j /\ j <= MAX_TAG_LEN
    <3>1. LayoutByte(t, j - 1) = 0
      BY <2>2, MaxTagLenAssumption DEF LayoutByte
    <3>2. config(t)[j] = TZ[j]
      BY <2>2, <1>5, MaxTagLenAssumption
    <3>3. TZ[j] = 0
      BY <2>2, <1>2, MaxTagLenAssumption
    <3>4. QED
      BY <3>1, <3>2, <3>3
  <2>3. CASE MAX_TAG_LEN < j
    <3>1. LayoutByte(t, j - 1) = (REQUEST_QUEUES \div 256^(j - 1 - MAX_TAG_LEN)) % 256
      BY <2>3, MaxTagLenAssumption DEF LayoutByte
    <3>2. j - 1 - MAX_TAG_LEN \in 0..3
      BY <2>3, MaxTagLenAssumption
    <3>3. config(t)[j] = Q[j - MAX_TAG_LEN]
      BY <2>3, <1>5, MaxTagLenAssumption
    <3> DEFINE d == j - 1 - MAX_TAG_LEN
    <3>4. Q[d + 1] = (REQUEST_QUEUES \div 256^d) % 256
      BY <3>2, Le32Byte
    <3>6. d + 1 = j - MAX_TAG_LEN
      BY MaxTagLenAssumption
    <3>5. QED
      BY <3>1, <3>3, <3>4, <3>6
  <2>4. QED
    BY <2>1, <2>2, <2>3, MaxTagLenAssumption
<1>7. QED
  BY <1>5, <1>6

\* Past the structure every byte reads as 0.
LEMMA LayoutBeyond ==
  ASSUME NEW t \in Seq(Nat), Len(t) <= MAX_TAG_LEN, NEW p \in Nat,
         p >= MAX_TAG_LEN + 4
  PROVE  LayoutByte(t, p) = 0
BY MaxTagLenAssumption DEF LayoutByte

\* resize(size, 0): a byte sequence padded with NULs.
LEMMA PadZeros ==
  ASSUME NEW u \in Seq(Nat), NEW m \in Nat
  PROVE  /\ u \o Zeros(m) \in Seq(Nat)
         /\ Len(u \o Zeros(m)) = Len(u) + m
         /\ \A k \in 1..Len(u) + m :
              (u \o Zeros(m))[k] = IF k <= Len(u) THEN u[k] ELSE 0
<1>1. Zeros(m) \in Seq(Nat) /\ Len(Zeros(m)) = m
      /\ \A i \in 1..m : Zeros(m)[i] = 0
  BY DEF Zeros
<1>2. /\ u \o Zeros(m) \in Seq(Nat)
      /\ Len(u \o Zeros(m)) = Len(u) + m
      /\ \A k \in 1..Len(u) + m :
           (u \o Zeros(m))[k] = IF k <= Len(u) THEN u[k] ELSE Zeros(m)[k - Len(u)]
  BY <1>1, ConcatProperties
<1>3. ASSUME NEW k \in 1..Len(u) + m, ~(k <= Len(u))
      PROVE  Zeros(m)[k - Len(u)] = 0
  BY <1>1, <1>3
<1>4. QED
  BY <1>2, <1>3

\* skip(o).take(s) of a byte sequence c: the bytes o+1 .. o+s that exist.
LEMMA SkipTake ==
  ASSUME NEW c \in Seq(Nat), NEW o \in Nat, NEW s \in Nat
  PROVE  LET e == IF o + s < Len(c) THEN o + s ELSE Len(c)
             taken == IF o >= Len(c) THEN <<>> ELSE SubSeq(c, o + 1, e)
         IN  /\ taken \in Seq(Nat)
             /\ Len(taken) = IF o >= Len(c) THEN 0 ELSE e - o
             /\ Len(taken) <= s
             /\ \A k \in 1..Len(taken) : taken[k] = c[o + k]
<1> DEFINE e == IF o + s < Len(c) THEN o + s ELSE Len(c)
<1>1. CASE o >= Len(c)
  BY <1>1
<1>2. CASE o < Len(c)
  <2>0. e \in Nat /\ e <= Len(c) /\ o <= e /\ e <= o + s
    BY <1>2
  <2>1. \A i \in (o + 1)..e : c[i] \in Nat
    BY <2>0
  <2>2. /\ SubSeq(c, o + 1, e) \in Seq(Nat)
        /\ Len(SubSeq(c, o + 1, e)) = IF o + 1 <= e THEN e - o ELSE 0
        /\ \A i \in 1..e - o : SubSeq(c, o + 1, e)[i] = c[o + i]
    BY <2>1, SubSeqProperties
  <2>3. QED
    BY <1>2, <2>0, <2>2
<1>3. QED
  BY <1>1, <1>2

\* What get_config's skip, take and resize return.
LEMMA GetConfigLayout ==
  ASSUME NEW t \in Seq(Nat), Len(t) <= MAX_TAG_LEN, NEW o \in Nat, NEW s \in Nat
  PROVE  get_config_bytes(t, o, s) = [k \in 1..s |-> LayoutByte(t, o + k - 1)]
<1> DEFINE c == config(t)
           n == MAX_TAG_LEN + 4
           e == IF o + s < Len(c) THEN o + s ELSE Len(c)
           taken == IF o >= Len(c) THEN <<>> ELSE SubSeq(c, o + 1, e)
<1>1. /\ c \in Seq(Nat) /\ Len(c) = n
      /\ \A j \in 1..n : c[j] = LayoutByte(t, j - 1)
  BY ConfigBytes
<1>2. /\ taken \in Seq(Nat)
      /\ Len(taken) = IF o >= Len(c) THEN 0 ELSE e - o
      /\ Len(taken) <= s
      /\ \A k \in 1..Len(taken) : taken[k] = c[o + k]
  BY <1>1, SkipTake
<1> DEFINE L == Len(taken)
<1>3. L \in Nat /\ s - L \in Nat
  BY <1>2
<1>3a. e \in Nat /\ e <= Len(c) /\ (e = o + s \/ e = Len(c))
  BY <1>1
<1> HIDE DEF taken, c, e
<1> DEFINE R == taken \o Zeros(s - L)
<1>4. /\ R \in Seq(Nat) /\ Len(R) = s
      /\ \A k \in 1..s : R[k] = IF k <= L THEN taken[k] ELSE 0
  <2>1. /\ R \in Seq(Nat)
        /\ Len(R) = L + (s - L)
        /\ \A k \in 1..L + (s - L) : R[k] = IF k <= L THEN taken[k] ELSE 0
    BY <1>2, <1>3, PadZeros
  <2>2. QED
    BY <2>1, <1>3
<1> HIDE DEF R
<1>5. ASSUME NEW k \in 1..s
      PROVE  R[k] = LayoutByte(t, o + k - 1)
  <2>1. CASE k <= L
    <3>0. R[k] = taken[k]
      BY <2>1, <1>4
    <3>1. R[k] = c[o + k]
      BY <3>0, <2>1, <1>2, <1>3
    <3>2. o + k \in 1..n
      <4>1. o < Len(c) /\ L = e - o
        BY <2>1, <1>2
      <4>2. QED
        BY <2>1, <4>1, <1>1, <1>3, <1>3a
    <3>3. c[o + k] = LayoutByte(t, o + k - 1)
      BY <3>2, <1>1
    <3>4. QED
      BY <3>1, <3>3
  <2>2. CASE ~(k <= L)
    <3>1. R[k] = 0
      BY <2>2, <1>4
    <3>2. o + k - 1 \in Nat /\ o + k - 1 >= n
      BY <2>2, <1>1, <1>2, <1>3, <1>3a
    <3>3. LayoutByte(t, o + k - 1) = 0
      BY <3>2, LayoutBeyond
    <3>4. QED
      BY <3>1, <3>3
  <2>3. QED
    BY <2>1, <2>2
<1>6. R = [k \in 1..s |-> LayoutByte(t, o + k - 1)]
  BY <1>4, <1>5
<1>7. QED
  BY <1>6 DEF get_config_bytes, taken, R, c, e

\* The answers on record stay those of the tag: no read before start-up,
\* and the tag is fixed after it.
LInv ==
  /\ CInv
  /\ phase = "init" => read = NoRead
  /\ ConfigReadsLayout

LEMMA InitLInv == Init => LInv
BY InitCInv DEF Init, LInv, ConfigReadsLayout

LEMMA NextLInv == LInv /\ [Next]_vars => LInv'
<1> SUFFICES ASSUME LInv, [Next]_vars PROVE LInv'
  OBVIOUS
<1>1. CInv'
  BY NextCInv DEF LInv
<1>2. CASE GetConfig
  <2>1. ~get_config_panics /\ tag \in Seq(Nat) /\ Len(tag) <= MAX_TAG_LEN
    <3>1. "CONFIG" \in acked
      BY <1>2 DEF GetConfig
    <3>2. ~get_config_panics
      BY <3>1, ConfigAckedNoPanic DEF LInv
    <3>3. tag # NoTag
      BY <3>2 DEF get_config_panics
    <3>4. QED
      BY <3>2, <3>3, MaxTagLenAssumption DEF LInv, CInv, parse_tag, get_config_panics
  <2>2. PICK o \in Offsets, s \in Sizes :
          /\ read' = [offset |-> o, size |-> s, data |-> get_config_bytes(tag, o, s)]
          /\ UNCHANGED <<phase, tag>>
    BY <1>2, <2>1 DEF GetConfig
  <2>3. o \in Nat /\ s \in Nat
    BY RequestAssumption
  <2>4. get_config_bytes(tag, o, s) = [k \in 1..s |-> LayoutByte(tag, o + k - 1)]
    BY <2>1, <2>3, GetConfigLayout
  <2>5. ConfigReadsLayout'
    BY <2>2, <2>4 DEF ConfigReadsLayout
  <2>6. phase = "running"
    BY <1>2 DEF GetConfig
  <2>7. QED
    BY <1>1, <2>2, <2>5, <2>6 DEF LInv
<1>3. CASE Start
  BY <1>1, <1>3 DEF Start, LInv, ConfigReadsLayout
<1>4. CASE GetProtocolFeatures \/ SetProtocolFeatures \/ UNCHANGED vars
  BY <1>1, <1>4 DEF GetProtocolFeatures, SetProtocolFeatures, vars, LInv,
     ConfigReadsLayout
<1>5. QED
  BY <1>2, <1>3, <1>4 DEF Next

(* Every GET_CONFIG answer is the virtio-fs configuration layout           *)
(* (ConfigReadsLayout), for every MAX_TAG_LEN, every tag parse_tag         *)
(* accepts, and every offset and size the front-end may ask for: the tag  *)
(* NUL-padded to MAX_TAG_LEN, then num_request_queues as le32, then zeros, *)
(* exactly `size` bytes from `offset`.                                      *)
THEOREM ConfigLayout == Spec => []ConfigReadsLayout
<1>1. LInv => ConfigReadsLayout
  BY DEF LInv
<1>2. QED
  BY <1>1, InitLInv, NextLInv, PTL DEF Spec

-----------------------------------------------------------------------------
(***************************************************************************)
(* Type correctness.  TypeOK alone is not inductive: GET_PROTOCOL_FEATURES *)
(* replaces what was offered, and only CInv (the offer is the one answer  *)
(* of protocol_features for the fixed tag) keeps the acknowledged set     *)
(* inside it.                                                              *)
(***************************************************************************)

\* Every byte of the layout is a byte value.
LEMMA LayoutByteNat ==
  ASSUME NEW t \in Seq(Nat), Len(t) <= MAX_TAG_LEN, NEW p \in Nat
  PROVE  LayoutByte(t, p) \in Nat
<1>1. CASE p < Len(t)
  BY <1>1, MaxTagLenAssumption DEF LayoutByte
<1>2. CASE Len(t) <= p /\ p < MAX_TAG_LEN
  BY <1>2, MaxTagLenAssumption DEF LayoutByte
<1>3. CASE MAX_TAG_LEN <= p /\ p < MAX_TAG_LEN + 4
  <2> DEFINE d == p - MAX_TAG_LEN
  <2>1. d \in 0..3
    BY <1>3, MaxTagLenAssumption
  <2>2. (REQUEST_QUEUES \div 256^d) % 256 = <<1, 0, 0, 0>>[d + 1]
    BY <2>1, Le32Byte
  <2>3. LayoutByte(t, p) = (REQUEST_QUEUES \div 256^d) % 256
    BY <1>3, MaxTagLenAssumption DEF LayoutByte
  <2>4. QED
    BY <2>1, <2>2, <2>3
<1>4. CASE MAX_TAG_LEN + 4 <= p
  BY <1>4, LayoutBeyond, MaxTagLenAssumption
<1>5. QED
  BY <1>1, <1>2, <1>3, <1>4, MaxTagLenAssumption

\* With CONFIG acknowledged, the stored tag is one get_config accepts.
LEMMA ConfigAckedTag ==
  ASSUME CInv, "CONFIG" \in acked
  PROVE  ~get_config_panics /\ tag \in Seq(Nat) /\ Len(tag) <= MAX_TAG_LEN
<1>1. ~get_config_panics
  BY ConfigAckedNoPanic
<1>2. tag # NoTag
  BY <1>1 DEF get_config_panics
<1>3. QED
  BY <1>1, <1>2, MaxTagLenAssumption DEF CInv, parse_tag, get_config_panics

TInv == LInv /\ TypeOK

LEMMA InitTInv == Init => TInv
BY InitLInv DEF Init, TInv, TypeOK, NoRead

LEMMA NextTypeOK ==
  ASSUME TInv, [Next]_vars
  PROVE  TypeOK'
<1>0. LInv' /\ CInv /\ TypeOK
  BY NextLInv DEF TInv, LInv
<1>1. CASE Start
  <2>1. phase' \in {"running", "exited"}
        /\ (tag' = tag \/ \E n \in TagLens : tag' = Tag(n))
    BY <1>1 DEF Start
  <2>2. QED
    BY <1>0, <1>1, <2>1 DEF Start, TypeOK
<1>2. CASE GetProtocolFeatures
  <2>1. acked \subseteq protocol_features
    BY <1>0 DEF CInv
  <2>2. QED
    BY <1>0, <1>2, <2>1 DEF GetProtocolFeatures, TypeOK, protocol_features,
       ProtocolFeatures
<1>3. CASE SetProtocolFeatures
  BY <1>0, <1>3 DEF SetProtocolFeatures, TypeOK
<1>4. CASE GetConfig
  <2>1. ~get_config_panics /\ tag \in Seq(Nat) /\ Len(tag) <= MAX_TAG_LEN
    BY <1>0, <1>4, ConfigAckedTag DEF GetConfig
  <2>2. PICK o \in Offsets, s \in Sizes :
          /\ read' = [offset |-> o, size |-> s, data |-> get_config_bytes(tag, o, s)]
          /\ UNCHANGED phase
    BY <1>4, <2>1 DEF GetConfig
  <2>3. o \in Nat /\ s \in Nat
    BY RequestAssumption
  <2>4. get_config_bytes(tag, o, s) = [k \in 1..s |-> LayoutByte(tag, o + k - 1)]
    BY <2>1, <2>3, GetConfigLayout
  <2>5. \A k \in 1..s : LayoutByte(tag, o + k - 1) \in Nat
    BY <2>1, <2>3, LayoutByteNat
  <2>6. get_config_bytes(tag, o, s) \in Seq(Nat)
    BY <2>3, <2>4, <2>5
  <2>7. QED
    BY <1>0, <1>4, <2>2, <2>6 DEF GetConfig, TypeOK
<1>5. CASE UNCHANGED vars
  BY <1>0, <1>5 DEF vars, TypeOK
<1>6. QED
  BY <1>1, <1>2, <1>3, <1>4, <1>5 DEF Next

(* Type correctness of the configuration space: the stored tag is one of  *)
(* the --tag arguments, only protocol features the daemon implements are  *)
(* offered and acknowledged, and every GET_CONFIG answer is a sequence of *)
(* byte values for a requested offset and size.                            *)
THEOREM ConfigTypeCorrect == Spec => []TypeOK
<1>1. TInv /\ [Next]_vars => TInv'
  BY NextLInv, NextTypeOK DEF TInv
<1>2. TInv => TypeOK
  BY DEF TInv
<1>3. QED
  BY <1>1, <1>2, InitTInv, PTL DEF Spec
=============================================================================
