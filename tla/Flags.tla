------------------------------- MODULE Flags -------------------------------
(***************************************************************************)
(* The flag strings of YALIN (yalin/flags.h).  netlink_msg_dump() has the  *)
(* flags of a header made into names twice, once as those of a request     *)
(* that gets and once as those of one that creates something, and          *)
(* netlink_link_msg_dump() those of an interface.  Each call appends the   *)
(* names of the set bits to a fixed buffer with strncat(), whose bound is  *)
(* the size of the whole buffer and so bounds nothing.  A name is its      *)
(* length here, and a string the bits it names.  The program is built with *)
(* -fsanitize=address: a byte written behind the buffer ends it.           *)
(***************************************************************************)
EXTENDS Integers, Sequences, FiniteSets, FiniteSetsExt

CONSTANTS
  BufSize,  \* strbuf[], getstr[] and newstr[]
  Message   \* the messages that may be dumped: the bits set in nlmsg_flags,
            \* whether it is about a link and the bits set in its ifi_flags

ASSUME FlagsAssumption ==
  /\ BufSize \in Nat \ {0}
  /\ Message \subseteq [hdr : SUBSET (0 .. 15), link : BOOLEAN, ifi : SUBSET (0 .. 31)]

(***************************************************************************)
(* strlen() of the names of bits 0, 1, ... in each table.                  *)
(***************************************************************************)
NameLen ==
  [get |-> <<13, 11, 9, 10, 15, 19, 10, 11, 12>>,
   new |-> <<13, 11, 9, 10, 15, 19, 13, 10, 12, 12>>,
   ifi |-> <<15, 11, 16, 15, 17, 16, 15, 15, 20, 19, 16, 20>>]

Call == {"get", "new", "ifi"}

VARIABLES
  proc,   \* "running" or "aborted"
  msg,    \* the message that is dumped
  call,   \* the call that makes a string, or "done"
  i,      \* the loop variable: the next bit
  first,  \* no name has been appended
  used    \* strlen(str)

vars == <<proc, msg, call, i, first, used>>

Init ==
  /\ proc = "running" /\ call = "get"
  /\ msg \in Message
  /\ i = 0 /\ first = TRUE /\ used = 0

FlagsOf(c) == IF c = "ifi" THEN msg.ifi ELSE msg.hdr

(* Mutant: ifi_flags_to_str() counts one name too many. *)
n_loop_OneMore(c) == Len(NameLen[c]) + (IF c = "ifi" THEN 1 ELSE 0)

(* MIN(max_flag_bit, sizeof(flags)*8) *)
n_loop(c) == IF Len(NameLen[c]) < 32 THEN Len(NameLen[c]) ELSE 32

At(c) == proc = "running" /\ call = c

-----------------------------------------------------------------------------
(* Mutant: a separator before every name but that of bit 0. *)
Appended_NotAtZero(c) == (IF i = 0 THEN 0 ELSE 1) + NameLen[c][i + 1]

(* Mutant: the separator takes three bytes. *)
Appended_Spaced(c) == (IF first THEN 0 ELSE 3) + NameLen[c][i + 1]

(* strncat() of the separator, unless it is the first, and of the name. *)
Appended(c) == (IF first THEN 0 ELSE 1) + NameLen[c][i + 1]

(* One round of the loop of snprintflags_long().  The terminating NUL must *)
(* fit too.                                                                *)
snprintflags_long_bit(c) ==
  /\ At(c) /\ i < n_loop(c)
  /\ i' = i + 1
  /\ IF i \in FlagsOf(c)
     THEN /\ used' = used + Appended(c)
          /\ first' = FALSE
          /\ proc' = IF used' < BufSize THEN proc ELSE "aborted"
     ELSE UNCHANGED <<used, first, proc>>
  /\ UNCHANGED <<msg, call>>

(* The call returns; the next one clears its buffer with memset(). *)
next_call(c, next) ==
  /\ At(c) /\ i = n_loop(c)
  /\ call' = next
  /\ i' = 0 /\ first' = TRUE /\ used' = 0
  /\ UNCHANGED <<proc, msg>>

nlmsg_flags_to_str_get == snprintflags_long_bit("get") \/ next_call("get", "new")

nlmsg_flags_to_str_new ==
  \/ snprintflags_long_bit("new")
  \/ next_call("new", IF msg.link THEN "ifi" ELSE "done")

ifi_flags_to_str == snprintflags_long_bit("ifi") \/ next_call("ifi", "done")

Done == (proc = "aborted" \/ call = "done") /\ UNCHANGED vars

Next ==
  nlmsg_flags_to_str_get \/ nlmsg_flags_to_str_new \/ ifi_flags_to_str \/ Done

Spec == Init /\ [][Next]_vars

-----------------------------------------------------------------------------
(* Properties.                                                             *)

(* The bits the string of the current call names. *)
Named == {b \in FlagsOf(call) : b < i}

(* Type invariant. *)
TypeOK ==
  /\ proc \in {"running", "aborted"}
  /\ call \in Call \cup {"done"}
  /\ msg \in Message
  /\ first \in BOOLEAN
  /\ i \in Nat /\ used \in Nat
  /\ call \in Call => i <= Len(NameLen[call])

(* What a string needs: its names with a separator between any two. *)
Needed(c, bits) ==
  IF bits = {} THEN 0
  ELSE MapThenSumSet(LAMBDA b : NameLen[c][b + 1], bits) + Cardinality(bits) - 1

(* At every moment the string is the names of the bits passed, separated:  *)
(* nothing of an earlier call is in it, and the buffer is only left by     *)
(* flags whose names do not fit.                                           *)
StringIsNames ==
  call \in Call =>
    /\ used = Needed(call, Named)
    /\ proc = "aborted" <=> Needed(call, Named) >= BufSize

(* The unbounded strncat() does no harm in the 100 bytes the program has:  *)
(* the flags the kernel sets in headers always fit, and so do any five     *)
(* flags of an interface.                                                  *)
SixFlagsNeeded == proc = "aborted" => call = "ifi" /\ Cardinality(Named) >= 6

=============================================================================
