--------------------------------- MODULE MCChat ---------------------------------
\* Two profiles: one bans the channel the other chats on, and they have
\* different admins, by dbref and by name.
EXTENDS Chat, TLC

CONSTANTS ann, bob, n1, n2, n3, pub, ctl

At(mode, always, admins) ==
  [mode |-> mode, enabled |-> TRUE, always |-> always, admins |-> admins]

MCDocs ==
  {[at |-> (pub :> At("chat", FALSE, {ann}) @@ ctl :> At("none", FALSE, {})), harass |-> TRUE],
   [at |-> (pub :> [At("chat", TRUE, {bob}) EXCEPT !.enabled = FALSE]
            @@ ctl :> At("control", FALSE, {bob, n3})), harass |-> FALSE]}

\* Whether a line is named, prefixed or titled only where something reads it.
MCLines ==
  {[says |-> "talk", named |-> FALSE, prefixed |-> b, titled |-> FALSE] : b \in BOOLEAN}
  \cup {[says |-> s, named |-> TRUE, prefixed |-> FALSE, titled |-> s = "bang"] :
         s \in {"help", "mute", "unmute", "bang"}}
  \cup {[says |-> "bang", named |-> FALSE, prefixed |-> b, titled |-> FALSE] : b \in BOOLEAN}

\* No profile lists n1 or n2.
Symmetry == Permutations({n1, n2})
===============================================================================
