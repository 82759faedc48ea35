----------------------------- MODULE MC_Session -----------------------------
(* One browser with two tabs, one account and one guest.                    *)
EXTENDS BrowserSession
CONSTANTS t1, t2, elsewhere

MCTabs == {t1, t2}
MCCalls == (MCTabs \X {"boot", "mutex", "api", "signin", "signout", "upgrade"})
             \cup {elsewhere}

\* One thing goes wrong: a failure, a lost answer, an expiry or a change of configuration.
OneMishap == faults' + events' <= 1
MCSpec == Init /\ [][Next /\ OneMishap]_vars /\ WF_vars(Runs /\ OneMishap)
=============================================================================
