----------------------------- MODULE MCPeerLink -----------------------------
(* Pairs of bridges for model-checking PeerLink: lo has the lower pubkey.  *)
EXTENDS PeerLink

CONSTANTS lo, hi

TwoDials == 1 .. 2
TwoSlots == 1 .. 2

\* One socket at a time: anchors, connecting again, and one break or one timer.
Troubled(faults, timers) ==
  [dialers |-> {lo, hi}, aliased |-> {hi}, seeding |-> {lo, hi}, registering |-> {},
   rediscover |-> {lo}, anchoring |-> {hi}, dials |-> 2, slots |-> 1,
   breaks |-> faults, timeouts |-> timers, apps |-> 0]

\* Both dial at once, each under a placeholder.
Race ==
  [dialers |-> {lo, hi}, aliased |-> {lo, hi}, seeding |-> {}, registering |-> {lo, hi},
   rediscover |-> {}, anchoring |-> {}, dials |-> 1, slots |-> 2,
   breaks |-> 0, timeouts |-> 0, apps |-> 1]

\* One dials, and the connection breaks twice.
Redial ==
  [dialers |-> {lo}, aliased |-> {lo}, seeding |-> {lo}, registering |-> {lo, hi},
   rediscover |-> {}, anchoring |-> {}, dials |-> 1, slots |-> 2,
   breaks |-> 2, timeouts |-> 0, apps |-> 2]

AllPlans == {Troubled(1, 0), Troubled(0, 1), Race, Redial}
==============================================================================
