----------------------------- MODULE MCSessions -----------------------------
(* Small instances of Sessions: what clients ask for, users, and symmetry. *)
EXTENDS Sessions, TLC

Asking(id, redirect, words) == [client |-> id, uri |-> redirect, scope |-> words]

AskedOnce ==
    {Asking("claude-desktop", "claude callback", <<>>),
     Asking("claude-desktop", "elsewhere", <<"openid">>),
     Asking("registered", "loopback", <<"profile", "offline_access">>)}

(* A user of whom there is no request plays no part, and does nothing. *)
SendersOnly ==
    \A u \in User : (\A r \in Request : user[r] # u) => creds[u] = None /\ token[u] = "none"

SessionSymmetry ==
    Permutations(Request) \cup Permutations(User) \cup Permutations(Replica)
    \cup Permutations(Key)
=============================================================================
