------------------------------ MODULE MCModels ------------------------------
EXTENDS Models, TLC

CONSTANTS a, b, ds

\* Turns that reason are routed to profile b; the others run on the active one.
MCRoutes == "fast" :> Nothing @@ "chat" :> Nothing @@ "reasoning" :> b

\* The active profile runs on an endpoint of its own, which no table knows, or, asked for
\* without one, is refused. The routed one has a key that is typed or in the environment and a
\* vendor that changes; the dashboard saves it without switching to it, and a switch is by name.
MCSaves == {AddProfile(a, Unknown, TRUE, "none"), AddProfile(a, Unknown, FALSE, "none"),
            UseProfile(b),
            Ask(b, ds, FALSE, "typed", FALSE), Ask(b, Local, FALSE, "env", FALSE)}
=============================================================================
