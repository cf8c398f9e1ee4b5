------------------------------- MODULE RtAttr -------------------------------
(***************************************************************************)
(* How YALIN shows one attribute of a link message: rta_to_str() in        *)
(* yalin/rtattr.h and, for IFLA_LINKINFO, the walks of                     *)
(* rta_to_str_IFLA_LINKINFO() over the attributes nested in it with        *)
(* rtattr_next().  The remaining length is a signed ssize_t, but the test  *)
(* for a next attribute is made in the unsigned size_t, whose width is the *)
(* parameter SizeT.                                                        *)
(*                                                                         *)
(* An attribute is a sequence of 4-byte words.  A word is a record of its  *)
(* lower half, which is rta_len when it is the head of an attribute, and   *)
(* its upper half, which is then rta_type.  rta and nrta are indices of    *)
(* words, lengths are in bytes.                                            *)
(***************************************************************************)
EXTENDS Integers, Sequences, SequencesExt

CONSTANTS
  SizeT,       \* 2^64: size_t arithmetic is modulo this
  LinkInfo,    \* IFLA_LINKINFO attributes: [kind, kindLen, data]
  LinkAttr     \* other attributes of a link message: [type, len]

ASSUME SizeTAssumption == SizeT \in Nat /\ SizeT > 1000

IFLA_INFO_KIND == 1
IFLA_INFO_DATA == 2
IFLA_INFO_SLAVE_KIND == 4
IFLA_VLAN_ID == 1
IFLA_VLAN_FLAGS == 2
IFLA_VLAN_EGRESS_QOS == 3
IFLA_VLAN_INGRESS_QOS == 4
IFLA_VLAN_PROTOCOL == 5

NULL == 0

align(n) == ((n + 3) \div 4) * 4

-----------------------------------------------------------------------------
(***************************************************************************)
(* The attributes as the kernel builds them (not under src/): a head, the  *)
(* payload and padding.  A nest's length includes the padding of what it   *)
(* contains.  A device without a kind of its own that belongs to a bridge  *)
(* or a bond has an IFLA_LINKINFO with IFLA_INFO_SLAVE_KIND alone.         *)
(***************************************************************************)
Word(lo, hi) == [len |-> lo, type |-> hi]

Nest(type, words) == <<Word(4 + 4 * Len(words), type)>> \o words

String(type, len) == <<Word(len, type)>> \o [i \in 1 .. align(len - 4) \div 4 |-> Word(1, 1)]

(* An attribute of a VLAN: two bytes, a struct ifla_vlan_flags, a mapping. *)
VlanWords(a) ==
  CASE a.type \in {IFLA_VLAN_ID, IFLA_VLAN_PROTOCOL} ->
         <<Word(6, a.type), Word(a.value, 0)>>
    [] a.type = IFLA_VLAN_FLAGS ->
         <<Word(12, a.type), Word(a.value, 0), Word(2, 2)>>
    [] a.type \in {IFLA_VLAN_EGRESS_QOS, IFLA_VLAN_INGRESS_QOS} ->
         Nest(a.type, <<Word(12, 1), Word(a.value, 0), Word(a.value, 0)>>)

LinkInfoWords(info) ==
  IF info.kind = "none"
  THEN String(IFLA_INFO_SLAVE_KIND, 11)
  ELSE String(IFLA_INFO_KIND, info.kindLen)
         \o IF info.data = <<>> THEN <<>>
            ELSE Nest(IFLA_INFO_DATA, FlattenSeq([i \in DOMAIN info.data |-> VlanWords(info.data[i])]))

(* The payload of an attribute of a link message has at least this size:   *)
(* structs, numbers, bytes, and a name of a queueing discipline.           *)
LeastPayload(type) ==
  CASE type = "STATS64" -> 24 * 8
    [] type = "STATS" -> 24 * 4
    [] type = "MAP" -> 32
    [] type \in {"PROTO_DOWN", "OPERSTATE", "LINKMODE", "CARRIER"} -> 1
    [] type \in {"PROMISCUITY", "NUM_TX_QUEUES", "NUM_RX_QUEUES", "MTU", "LINK",
                 "GROUP", "CARRIER_CHANGES", "TXQLEN"} -> 4
    [] type = "QDISC" -> 2
    [] OTHER -> 0

(* A kind is a string with its final NUL, lengths fit in a size_t, and the *)
(* description of a VLAN is not empty and says nothing twice.              *)
ASSUME LinkInfoAssumption ==
  \A info \in LinkInfo :
    /\ info \in [kind : STRING, kindLen : Nat, data : Seq([type : 1 .. 5, value : Nat])]
    /\ info.kind # "none" => info.kindLen >= 5
    /\ info.kind = "vlan" =>
         /\ info.kindLen = 9 /\ info.data # <<>>
         /\ \A i, j \in DOMAIN info.data : info.data[i].type = info.data[j].type => i = j
    /\ 4 * Len(LinkInfoWords(info)) < SizeT

ASSUME LinkAttrAssumption ==
  \A a \in LinkAttr :
    a \in [type : STRING, len : Nat] /\ a.len >= 4 + LeastPayload(a.type)

-----------------------------------------------------------------------------
VARIABLES
  attr,      \* the attribute: one of LinkInfo or LinkAttr
  words,     \* its words, of a LinkInfo without the outer head
  pc,        \* "entry", "kind", "data", "vlan" or "done"
  out,       \* what was shown, or how the process ended
  nrta,      \* the nested attribute
  nbuflen,   \* a ssize_t: what is left of the nest
  vlan,      \* the struct interface_info_vlan
  reach      \* the last byte looked at, counted from the outer head

vars == <<attr, words, pc, out, nrta, nbuflen, vlan, reach>>

Init ==
  /\ \/ /\ attr \in LinkInfo
        /\ words = LinkInfoWords(attr)
     \/ /\ attr \in LinkAttr
        /\ words = <<>>
  /\ pc = "entry" /\ out = "nothing"
  /\ nrta = NULL /\ nbuflen = 0
  /\ vlan = [id |-> 0, proto |-> 0, flags |-> <<0, 0>>]
  /\ reach = 4

(* What a pointer into the attribute sees; behind it there may be anything *)
(* and 0 stands for that.                                                  *)
At(p) == IF p \in DOMAIN words THEN words[p] ELSE Word(0, 0)

Furthest(a, b) == IF a < b THEN b ELSE a

(* The first n bytes of the word p and on have been looked at. *)
LooksAt(p, n) == reach' = Furthest(reach, 4 * p + n)

rtattr_payload_len(p) == (At(p).len - 4) % SizeT

(* Mutant: the comparison of rtattr_next() in signed arithmetic. *)
rtattr_next_Signed(p, buflen) ==
  LET seek_len == align(At(p).len)
  IN  IF buflen <= 0 \/ seek_len <= 0 \/ buflen - seek_len <= 4
      THEN NULL
      ELSE p + seek_len \div 4

(* rtattr_next(): the attribute behind the one at p.  buflen - seek_len is *)
(* unsigned, so it is large, not negative, for a length not divisible by 4. *)
rtattr_next(p, buflen) ==
  LET seek_len == align(At(p).len)
  IN  IF buflen <= 0 \/ seek_len <= 0 \/ (buflen - seek_len) % SizeT <= 4
      THEN NULL
      ELSE p + seek_len \div 4

(* Mutant: the two structs of statistics are swapped. *)
PayloadRead_StatsSwapped(type, len) ==
  CASE type = "STATS" -> 23 * 8
    [] type = "STATS64" -> 23 * 4
    [] type = "MAP" -> 3 * 8 + 2 + 1 + 1
    [] OTHER -> 0

(* What the readers of rta_to_str() look at of a payload of len bytes: all *)
(* of it, a struct, a number or nothing.  The string of IFLA_IFNAME ends   *)
(* within its payload.                                                     *)
PayloadRead(type, len) ==
  CASE type = "STATS64" -> 23 * 8
    [] type = "STATS" -> 23 * 4
    [] type = "MAP" -> 3 * 8 + 2 + 1 + 1
    [] type \in {"PROTO_DOWN", "OPERSTATE", "LINKMODE", "CARRIER"} -> 1
    [] type \in {"PROMISCUITY", "NUM_TX_QUEUES", "NUM_RX_QUEUES", "MTU", "LINK",
                 "GROUP", "QDISC", "CARRIER_CHANGES", "TXQLEN"} -> 4
    [] type = "AF_SPEC" -> 0
    [] OTHER -> len

(* rta_to_str(): nested attributes have a function of their own. *)
rta_to_str ==
  /\ pc = "entry"
  /\ \/ /\ attr \in LinkInfo
        /\ pc' = "kind"
        /\ UNCHANGED <<out, reach>>
     \/ /\ attr \in LinkAttr
        /\ pc' = "done" /\ out' = "shown"
        /\ LooksAt(1, PayloadRead(attr.type, attr.len - 4))
  /\ UNCHANGED <<attr, words, nrta, nbuflen, vlan>>

(* rta_to_str_IFLA_LINKINFO(): the assertions, and the string of the kind. *)
(* A kind other than "vlan" is shown as a dump of the whole attribute.     *)
linkinfo_kind ==
  /\ pc = "kind"
  /\ \/ /\ At(1).type # IFLA_INFO_KIND
        /\ pc' = "done" /\ out' = "asserted"
        /\ LooksAt(1, 4)
     \/ /\ At(1).type = IFLA_INFO_KIND /\ rtattr_payload_len(1) > 100
        /\ pc' = "done" /\ out' = "exited"
        /\ LooksAt(1, 4)
     \/ /\ At(1).type = IFLA_INFO_KIND /\ rtattr_payload_len(1) <= 100
        /\ attr.kind # "vlan"
        /\ pc' = "done" /\ out' = "unknown kind"
        /\ LooksAt(1, 4 * Len(words))
     \/ /\ At(1).type = IFLA_INFO_KIND /\ rtattr_payload_len(1) <= 100
        /\ attr.kind = "vlan"
        /\ pc' = "data" /\ UNCHANGED out
        /\ LooksAt(1, At(1).len)
  /\ UNCHANGED <<attr, words, nrta, nbuflen, vlan>>

(* The attribute behind the kind; l is the length of the kind alone.  The  *)
(* type is read before the result of rtattr_next() is tested.              *)
linkinfo_data ==
  /\ pc = "data"
  /\ LET rta == rtattr_next(1, At(1).len)
     IN  \/ /\ rta = NULL
            /\ pc' = "done" /\ out' = "crashed"
            /\ UNCHANGED <<nrta, nbuflen, reach>>
         \/ /\ rta # NULL
            /\ At(rta).type = IFLA_INFO_DATA
            /\ pc' = "vlan" /\ UNCHANGED out
            /\ nrta' = rta + 1 /\ nbuflen' = rtattr_payload_len(rta)
            /\ LooksAt(rta, 4)
         \/ /\ rta # NULL
            /\ At(rta).type # IFLA_INFO_DATA
            /\ pc' = "done" /\ out' = "unknown kind"
            /\ LooksAt(1, 4 * Len(words))
            /\ UNCHANGED <<nrta, nbuflen>>
  /\ UNCHANGED <<attr, words, vlan>>

(* The most a field of vlaninfo can take; the QoS mappings are skipped. *)
FieldLen(type) ==
  CASE type \in {IFLA_VLAN_ID, IFLA_VLAN_PROTOCOL} -> 2
    [] type = IFLA_VLAN_FLAGS -> 8
    [] OTHER -> SizeT

VlanField(p) ==
  CASE At(p).type = IFLA_VLAN_ID -> [vlan EXCEPT !.id = At(p + 1).len]
    [] At(p).type = IFLA_VLAN_PROTOCOL -> [vlan EXCEPT !.proto = At(p + 1).len]
    [] At(p).type = IFLA_VLAN_FLAGS ->
         [vlan EXCEPT !.flags = <<At(p + 1).len, At(p + 2).len>>]
    [] OTHER -> vlan

FieldRead(p) == IF FieldLen(At(p).type) = SizeT THEN 4 ELSE 4 + FieldLen(At(p).type)

(* Mutant: what is left of the nest is not counted down. *)
linkinfo_vlan_NoCount ==
  /\ pc = "vlan"
  /\ \/ /\ rtattr_payload_len(nrta) > FieldLen(At(nrta).type)
        /\ pc' = "done" /\ out' = "exited"
        /\ LooksAt(nrta, 4)
        /\ UNCHANGED <<nrta, nbuflen, vlan>>
     \/ /\ rtattr_payload_len(nrta) <= FieldLen(At(nrta).type)
        /\ vlan' = VlanField(nrta)
        /\ LooksAt(nrta, FieldRead(nrta))
        /\ nrta' = rtattr_next(nrta, nbuflen)
        /\ UNCHANGED nbuflen
        /\ IF nrta' = NULL \/ nbuflen' <= 0
           THEN pc' = "done" /\ out' = "vlan"
           ELSE UNCHANGED <<pc, out>>
  /\ UNCHANGED <<attr, words>>

(* Mutant: the result of rtattr_next() is not kept. *)
linkinfo_vlan_SameAttr ==
  /\ pc = "vlan"
  /\ \/ /\ rtattr_payload_len(nrta) > FieldLen(At(nrta).type)
        /\ pc' = "done" /\ out' = "exited"
        /\ LooksAt(nrta, 4)
        /\ UNCHANGED <<nrta, nbuflen, vlan>>
     \/ /\ rtattr_payload_len(nrta) <= FieldLen(At(nrta).type)
        /\ vlan' = VlanField(nrta)
        /\ LooksAt(nrta, FieldRead(nrta))
        /\ UNCHANGED nrta
        /\ nbuflen' = IF rtattr_next(nrta, nbuflen) = NULL THEN nbuflen ELSE nbuflen - align(At(nrta).len)
        /\ IF nbuflen' <= 0
           THEN pc' = "done" /\ out' = "vlan"
           ELSE UNCHANGED <<pc, out>>
  /\ UNCHANGED <<attr, words>>

(* One round of the loop over the nest: rtattr_read_16bit(), _64bit() exit *)
(* on a payload that is too long, else the field is set; then on to the    *)
(* next attribute, if there is one and something is left.                  *)
linkinfo_vlan ==
  /\ pc = "vlan"
  /\ \/ /\ rtattr_payload_len(nrta) > FieldLen(At(nrta).type)
        /\ pc' = "done" /\ out' = "exited"
        /\ LooksAt(nrta, 4)
        /\ UNCHANGED <<nrta, nbuflen, vlan>>
     \/ /\ rtattr_payload_len(nrta) <= FieldLen(At(nrta).type)
        /\ vlan' = VlanField(nrta)
        /\ LooksAt(nrta, FieldRead(nrta))
        /\ nrta' = rtattr_next(nrta, nbuflen)
        /\ nbuflen' = IF nrta' = NULL THEN nbuflen ELSE nbuflen - align(At(nrta).len)
        /\ IF nrta' = NULL \/ nbuflen' <= 0
           THEN pc' = "done" /\ out' = "vlan"
           ELSE UNCHANGED <<pc, out>>
  /\ UNCHANGED <<attr, words>>

(* The attribute has been shown, or the process has ended. *)
Done == pc = "done" /\ UNCHANGED vars

Next == rta_to_str \/ linkinfo_kind \/ linkinfo_data \/ linkinfo_vlan \/ Done

Spec == Init /\ [][Next]_vars

(* A sequential function: it goes on as long as it has a statement left. *)
FairSpec == Spec /\ WF_vars(Next)

-----------------------------------------------------------------------------
(* Properties.                                                             *)

(* Type invariant. *)
TypeOK ==
  /\ attr \in LinkInfo \cup LinkAttr
  /\ words \in Seq([len : Nat, type : Nat])
  /\ pc \in {"entry", "kind", "data", "vlan", "done"}
  /\ out \in {"nothing", "shown", "unknown kind", "vlan", "asserted", "exited", "crashed"}
  /\ nrta \in 0 .. Len(words) /\ nbuflen \in Int
  /\ vlan \in [id : Nat, proto : Nat, flags : Nat \X Nat]
  /\ reach \in Nat

(* What the kernel says of a VLAN: the value of an attribute, or 0. *)
Said(info, type) ==
  LET given == {i \in DOMAIN info.data : info.data[i].type = type}
  IN  IF given = {} THEN 0 ELSE info.data[CHOOSE i \in given : TRUE].value

(* The description of a VLAN is shown with the id, the protocol and the    *)
(* flags the kernel has sent, whichever attributes surround them, and      *)
(* never ends the process: the step from the kind to the data relies on an *)
(* unsigned difference, and the loop on the padding of a nest.             *)
VlanShown ==
  pc = "done" /\ attr \in LinkInfo /\ attr.kind = "vlan" =>
    /\ out = "vlan"
    /\ vlan.id = Said(attr, IFLA_VLAN_ID)
    /\ vlan.proto = Said(attr, IFLA_VLAN_PROTOCOL)
    /\ vlan.flags[1] = Said(attr, IFLA_VLAN_FLAGS)

(* No reader looks behind the attribute of a link message it was given and *)
(* its padding, although none compares the length with what it reads.      *)
ReadsInside ==
  reach <= IF attr \in LinkInfo THEN 4 + 4 * Len(words) ELSE align(attr.len)

(* The walk over the nested attributes ends. *)
WalkEnds == <>(pc = "done")

(* The assertion in rta_to_str_IFLA_LINKINFO(): what is nested in an       *)
(* IFLA_LINKINFO starts with the kind.                                     *)
KindComesFirst == out # "asserted"

=============================================================================
