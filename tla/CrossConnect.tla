--------------------------- MODULE CrossConnect ---------------------------
(***************************************************************************)
(* What YAK promises its users, whatever threads, rings and mbufs it is    *)
(* built from: every port is a pair of FIFO channels between the host and  *)
(* the wire.  Nothing is reordered, duplicated, altered or moved to        *)
(* another port.  From host to wire a frame may be lost (the NIC need not  *)
(* accept it).  From wire to host only frames of an unknown ether_type are *)
(* left out.  Once the process has ended nothing moves any more.           *)
(***************************************************************************)
EXTENDS Naturals, Sequences

CONSTANTS Port, Frame, Forwarded

VARIABLES
  up,        \* the process has not ended
  h2w,       \* h2w[p]: frames on their way from the host to the wire
  w2h,       \* w2h[p]: frames on their way from the wire to the host
  wireOut,   \* wireOut[p]: the last frame put on the wire
  hostOut    \* hostOut[p]: the last frame given to the host

cvars == <<up, h2w, w2h, wireOut, hostOut>>

(* s without its i-th element. *)
Without(s, i) == SubSeq(s, 1, i - 1) \o SubSeq(s, i + 1, Len(s))

CInit ==
  /\ up = TRUE
  /\ h2w = [p \in Port |-> <<>>]
  /\ w2h = [p \in Port |-> <<>>]
  /\ wireOut \in [Port -> Frame]
  /\ hostOut \in [Port -> Frame]

FromHost(p, f) ==
  /\ h2w' = [h2w EXCEPT ![p] = Append(@, f)]
  /\ UNCHANGED <<up, w2h, wireOut, hostOut>>

FromWire(p, f) ==
  /\ w2h' = [w2h EXCEPT ![p] = Append(@, f)]
  /\ UNCHANGED <<up, h2w, wireOut, hostOut>>

ToWire(p) ==
  /\ h2w[p] # <<>>
  /\ wireOut' = [wireOut EXCEPT ![p] = Head(h2w[p])]
  /\ h2w' = [h2w EXCEPT ![p] = Tail(@)]
  /\ UNCHANGED <<up, w2h, hostOut>>

LoseHostFrame(p, i) ==
  /\ h2w' = [h2w EXCEPT ![p] = Without(@, i)]
  /\ UNCHANGED <<up, w2h, wireOut, hostOut>>

ToHost(p) ==
  /\ w2h[p] # <<>>
  /\ Head(w2h[p]) \in Forwarded
  /\ hostOut' = [hostOut EXCEPT ![p] = Head(w2h[p])]
  /\ w2h' = [w2h EXCEPT ![p] = Tail(@)]
  /\ UNCHANGED <<up, h2w, wireOut>>

FilterWireFrame(p) ==
  /\ w2h[p] # <<>>
  /\ Head(w2h[p]) \notin Forwarded
  /\ w2h' = [w2h EXCEPT ![p] = Tail(@)]
  /\ UNCHANGED <<up, h2w, wireOut, hostOut>>

Stop ==
  /\ up' = FALSE
  /\ UNCHANGED <<h2w, w2h, wireOut, hostOut>>

CNext ==
  /\ up
  /\ \/ \E p \in Port :
          \/ \E f \in Frame : FromHost(p, f) \/ FromWire(p, f)
          \/ \E i \in 1 .. Len(h2w[p]) : LoseHostFrame(p, i)
          \/ ToWire(p) \/ ToHost(p) \/ FilterWireFrame(p)
     \/ Stop

CSpec == CInit /\ [][CNext]_cvars

=============================================================================
