------------------------- MODULE MCPasswordThrottle -------------------------
(***************************************************************************)
(* Small instances of PasswordThrottle.  As in the default policy, the      *)
(* account has the smaller budget and the longer window and cooldown.       *)
(***************************************************************************)
EXTENDS PasswordThrottle

MCSourceLimit == [attempts |-> 3, window |-> 2, cooldown |-> 2]

MCAccountLimit == [attempts |-> 2, window |-> 3, cooldown |-> 4]
=============================================================================
