------------------------- MODULE MCBrowserIdentity -------------------------
EXTENDS BrowserIdentity, TLC

\* Attempts, callbacks, requests and members are interchangeable.
IdentitySymmetry ==
    Permutations(Attempts) \cup Permutations(Callbacks)
        \cup Permutations(Requests) \cup Permutations(Members)

=============================================================================
