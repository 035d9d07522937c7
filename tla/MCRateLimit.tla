----------------------------- MODULE MCRateLimit -----------------------------
EXTENDS RateLimit, TLC

\* Registration and login count an address and an account, the rest a user.
MCRules == ("auth" :> <<"ip", "account">>) @@ ("default" :> <<"user">>)
MCLimit == ("ip" :> 2) @@ ("account" :> 1) @@ ("user" :> 1)
MCWindow == ("ip" :> 3) @@ ("account" :> 3) @@ ("user" :> 2)

RequestsAlike == Permutations(Request)
=============================================================================
