----------------------------- MODULE ConfigSpace -----------------------------
(***************************************************************************)
(* The virtio-fs configuration space of the daemon (src/kfsd/src/main.rs): *)
(* the --tag argument checked by parse_tag, the CONFIG protocol feature    *)
(* that protocol_features advertises only when a tag is set, and the      *)
(* bytes get_config answers for a GET_CONFIG (offset, size).               *)
(*                                                                         *)
(* A tag is its UTF-8 encoding, a sequence of bytes; which bytes does not  *)
(* matter, so the tag of length n is the bytes 1..n (never NUL).  The     *)
(* front-end acknowledges only protocol features it was offered, and the  *)
(* vhost-user library forwards GET_CONFIG only once CONFIG is acknowledged *)
(* (both outside this repository: the environment's contract).            *)
(***************************************************************************)
EXTENDS Naturals, Sequences

CONSTANTS
  MAX_TAG_LEN,   \* longest tag parse_tag accepts (36 in the code)
  TagLens,       \* lengths of the --tag arguments a start may be given
  Offsets,       \* offsets GET_CONFIG may ask for
  Sizes,         \* sizes GET_CONFIG may ask for
  NoTag          \* tag None: the --tag option absent

ASSUME MaxTagLenAssumption == MAX_TAG_LEN \in Nat \ {0}
ASSUME RequestAssumption ==
  TagLens \subseteq Nat /\ Offsets \subseteq Nat /\ Sizes \subseteq Nat

\* const REQUEST_QUEUES: u32 = 1
REQUEST_QUEUES == 1

\* Le32::from: the four bytes of a u32, least significant first
Le32(n) == [i \in 1..4 |-> (n \div 256^(i - 1)) % 256]

Zeros(n) == [i \in 1..n |-> 0]

\* the --tag argument of length n
Tag(n) == [i \in 1..n |-> i]

\* the protocol features of protocol_features
BaseFeatures == {"MQ", "BACKEND_REQ", "BACKEND_SEND_FD", "REPLY_ACK",
                 "CONFIGURE_MEM_SLOTS", "LOG_SHMFD", "DEVICE_STATE"}
ProtocolFeatures == BaseFeatures \cup {"CONFIG"}

VARIABLES
  phase,    \* "init" before the arguments are parsed, "running", "exited"
            \* after a rejected argument, "crashed" after a panic
  tag,      \* VhostUserFsBackend.tag: NoTag or the tag's bytes
  offered,  \* the protocol features the front-end was last offered
  acked,    \* the protocol features the front-end acknowledged
  read      \* the last GET_CONFIG: [offset, size, data], or NoRead

vars == <<phase, tag, offered, acked, read>>

NoRead == [offset |-> 0, size |-> 0, data |-> NoTag]

TypeOK ==
  /\ phase \in {"init", "running", "exited", "crashed"}
  /\ tag = NoTag \/ tag \in {Tag(n) : n \in TagLens}
  /\ offered \subseteq ProtocolFeatures
  /\ acked \subseteq offered
  /\ read = NoRead \/ read \in [offset : Offsets, size : Sizes, data : Seq(Nat)]

Init ==
  /\ phase = "init"
  /\ tag = NoTag
  /\ offered = {}
  /\ acked = {}
  /\ read = NoRead

(***************************************************************************)
(* Start-up: clap runs parse_tag on the --tag value; an Err ends the      *)
(* process, Ok is the tag VhostUserFsBackend::new stores.                 *)
(***************************************************************************)
\* Mutation: the length check is off by one.
parse_tag_off_by_one(t) == t # <<>> /\ Len(t) <= MAX_TAG_LEN + 1

parse_tag(t) == t # <<>> /\ Len(t) <= MAX_TAG_LEN

Start ==
  /\ phase = "init"
  /\ \/ /\ phase' = "running"
        /\ UNCHANGED tag
     \/ \E n \in TagLens :
          IF parse_tag(Tag(n))
            THEN phase' = "running" /\ tag' = Tag(n)
            ELSE phase' = "exited" /\ UNCHANGED tag
  /\ UNCHANGED <<offered, acked, read>>

(***************************************************************************)
(* The vhost-user messages about the configuration space.                  *)
(***************************************************************************)
\* Mutation: a protocol feature the daemon does not implement (inflight
\* I/O tracking) is advertised too.
protocol_features_inflight ==
  (IF tag # NoTag THEN ProtocolFeatures ELSE BaseFeatures) \cup {"INFLIGHT_SHMFD"}

protocol_features ==
  IF tag # NoTag THEN ProtocolFeatures ELSE BaseFeatures

GetProtocolFeatures ==
  /\ phase = "running"
  /\ offered' = protocol_features
  /\ UNCHANGED <<phase, tag, acked, read>>

SetProtocolFeatures ==
  /\ phase = "running"
  /\ \E f \in SUBSET offered : acked' = f
  /\ UNCHANGED <<phase, tag, offered, read>>

\* the VirtioFsConfig struct as bytes: the tag padded with NUL to
\* MAX_TAG_LEN, then num_request_queues
config(t) == t \o Zeros(MAX_TAG_LEN - Len(t)) \o Le32(REQUEST_QUEUES)

\* Mutation: the answer is not padded up to `size`.
get_config_bytes_no_resize(t, o, s) ==
  LET c == config(t)
  IN  IF o >= Len(c) THEN <<>>
      ELSE SubSeq(c, o + 1, IF o + s < Len(c) THEN o + s ELSE Len(c))

\* .iter().skip(offset).take(size).collect(), then resize(size, 0)
get_config_bytes(t, o, s) ==
  LET c == config(t)
      taken == IF o >= Len(c) THEN <<>>
               ELSE SubSeq(c, o + 1, IF o + s < Len(c) THEN o + s ELSE Len(c))
  IN  taken \o Zeros(s - Len(taken))

\* get_config: the tag must be set (expect) and 1..MAX_TAG_LEN bytes long
\* (assert!); either failing panics the control thread.
get_config_panics == tag = NoTag \/ Len(tag) > MAX_TAG_LEN \/ tag = <<>>

GetConfig ==
  /\ phase = "running"
  /\ "CONFIG" \in acked
  /\ \E o \in Offsets, s \in Sizes :
       IF get_config_panics
         THEN phase' = "crashed" /\ UNCHANGED read
         ELSE read' = [offset |-> o, size |-> s, data |-> get_config_bytes(tag, o, s)]
              /\ UNCHANGED phase
  /\ UNCHANGED <<tag, offered, acked>>

Next ==
  \/ Start
  \/ GetProtocolFeatures
  \/ SetProtocolFeatures
  \/ GetConfig

Spec == Init /\ [][Next]_vars
-----------------------------------------------------------------------------
(***************************************************************************)
(* Properties.                                                             *)
(***************************************************************************)

\* virtio 1.2 section 5.11.4: byte p of the configuration space of a
\* device with tag t: the tag field (36 bytes, NUL-padded) at offset 0,
\* then num_request_queues as le32; nothing beyond reads as 0.
LayoutByte(t, p) ==
  CASE p < Len(t)                              -> t[p + 1]
    [] Len(t) <= p /\ p < MAX_TAG_LEN          -> 0
    [] MAX_TAG_LEN <= p /\ p < MAX_TAG_LEN + 4 ->
         (REQUEST_QUEUES \div 256^(p - MAX_TAG_LEN)) % 256
    [] OTHER                                    -> 0

(* Every GET_CONFIG is answered with exactly `size` bytes, byte k being    *)
(* byte offset + k of the virtio-fs configuration layout for the tag given *)
(* at start-up (get_config's copy into the fixed tag field, the byte view *)
(* of VirtioFsConfig, skip/take and the final resize together).            *)
ConfigReadsLayout ==
  read # NoRead =>
    read.data = [k \in 1..read.size |-> LayoutByte(tag, read.offset + k - 1)]

(* GET_CONFIG never panics the daemon: the tag checks of parse_tag at     *)
(* start-up, and protocol_features offering CONFIG only with a tag, make  *)
(* the expect and the two assert!s of get_config hold for every sequence  *)
(* of feature negotiations a front-end may run.                            *)
NoConfigPanic == phase # "crashed"
=============================================================================
