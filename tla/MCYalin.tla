------------------------------ MODULE MCYalin ------------------------------
(* Instances of Yalin for TLC: messages of every kind whose words are 0 or *)
(* look like the head of an attribute of 8 bytes, one or two to a          *)
(* datagram, for a buffer of 64 bytes.                                     *)
EXTENDS Yalin

AF_INET == 2
RTNL_FAMILY_IPMR == 128

MsgOf(kind, attrs, fill, family, accepted) ==
  [kind |-> kind, attrs |-> attrs, fill |-> fill, family |-> family,
   accepted |-> accepted]

Msg(kind, attrs, fill) == MsgOf(kind, attrs, fill, AF_INET, TRUE)

AddrZ  == Msg("addr", <<8>>, 0)           \* 32 bytes
AddrF  == Msg("addr", <<5>>, 8)           \* 32
AddrN  == Msg("addr", <<>>, 4)            \* 24
LinkZ  == Msg("link", <<5, 8>>, 0)        \* 48
LinkF  == Msg("link", <<>>, 8)            \* 32
LinkS  == MsgOf("link", <<8>>, 0, 0, FALSE)  \* 40, a slave only (RtAttr)
RouteF == Msg("route", <<4>>, 4)          \* 32
RouteU == MsgOf("route", <<>>, 0, RTNL_FAMILY_IPMR, TRUE)   \* 28
NeighF == Msg("neigh", <<6, 10>>, 8)      \* 48
RuleF  == MsgOf("other", <<>>, 8, RTNL_FAMILY_IPMR, TRUE)   \* 28
LinkL  == Msg("link", <<8, 8, 8>>, 8)     \* 56, just fits with its slack
LinkM  == Msg("link", <<8, 8, 8, 4>>, 8)  \* 60, its slack crosses the end
LinkXL == Msg("link", <<8, 8, 5, 7>>, 0)  \* 64, fits without it
AddrT  == Msg("addr", <<8, 40>>, 0)       \* 72, is truncated
RuleT  == Msg("other", <<40>>, 8)         \* 68, is truncated

Fitting ==
  {<<AddrZ, AddrF>>, <<LinkZ>>, <<LinkF>>, <<RouteF, AddrN>>, <<RouteU>>, <<LinkS>>,
   <<NeighF>>, <<RuleF>>, <<LinkL>>}

Large == {<<LinkM>>, <<LinkXL>>, <<RuleT>>, <<AddrT>>, <<LinkL, AddrZ>>}

AllDatagrams == Fitting \cup Large

TruncDatagrams == {<<AddrZ, AddrF>>, <<LinkL, AddrZ>>, <<AddrT>>}

OldWord == {4}
ZeroWord == {0}

=============================================================================
