----------------------------- MODULE MC_Settings -----------------------------
(* What a configuration says, checked on its own: a document taken through   *)
(* the loader, the retry ladder of a policy, or a `when` clause read by the  *)
(* scanner.  A behaviour is about one of the three.                          *)
EXTENDS Configuration, RetrySchedule, WhenLexer

\* Durations of five value bits: every mode saturates within nine attempts.
MCPolicies ==
    [backoff : {"fixed", "linear", "exponential"}, initial : {0, 1, 3, 12},
     max : {0, 1, 20, 31}, jitter : BOOLEAN, attempts : {0, 1, 9}]

Quotes   == {"E", "'", "\\", "NL", "OLD"}
Comments == {"-", "/", "*", "NL", "OLD"}
Dollars  == {"$", "E", "\\", "OLD", "'", "a", "1"}
Fields   == {".", "SP", "NL", "-", "DQ", "OLD", "'"}
MCAlphabets == {Quotes, Comments, Dollars, Fields}
MCMaxLength == [A \in MCAlphabets |-> IF A = Quotes THEN 8 ELSE 6]

\* The documents write the keys of one group, each from the given scalars.
Writing(group, scalars) ==
    {[k \in Keys |-> IF k \in group THEN f[k] ELSE Absent] : f \in [group -> scalars]}

Numbers(S) == {Plain(v) : v \in S}

MCDocuments ==
    Writing({"lease", "drain", "defaults.timeout", "l1.timeout", "l2.timeout"},
            {Absent, Unreadable} \cup Numbers({0, 1, 4, 6}))
    \cup Writing({"lease", "l1.timeout"},
            {Absent, Escaped, Malformed, Reference, Defaulted(Plain(1)),
             Defaulted(Malformed), Defaulted(Escaped), Defaulted(Plain(6))})
    \cup Writing({"l1.initial", "l1.max", "a.initial", "b.initial", "b.max",
                  "defaults.initial"},
            {Absent, Null} \cup Numbers({0, 6}))
    \cup Writing({"keep", "interval", "precreate"},
            {Absent, Unreadable} \cup Numbers({0, 1, 4, 6}))
    \cup Writing({"concurrency", "l1.concurrency", "l2.concurrency"},
            {Absent, Null, Unreadable} \cup Numbers({0, 1, 4, 6, 7}))

MCMerges == {<<>>, <<"a">>, <<"b", "a">>, <<"a", "missing">>}
MCEnvironments == {Unset, Empty, Value(-1), Value(0), Value(1), Value(6)}

\* What varies with a document is what it holds a use for.
Apt(d, m, e) ==
    /\ m # <<>> => \E k \in Anchored : d[k] # Absent
    /\ e # Unset => \E k \in Keys : d[k].is \in {"reference", "defaulted"}

Init ==
    \/ CInit /\ Apt(document, merges, env) /\ Idle /\ clause = Unwritten
    \/ NoDocument /\ SInit /\ clause = Unwritten
    \/ NoDocument /\ Idle /\ LInit

Next ==
    \/ CNext /\ UNCHANGED <<svars, clause>>
    \/ SNext /\ UNCHANGED <<cvars, clause>>
    \/ Write /\ UNCHANGED <<cvars, svars>>

Spec == Init /\ [][Next]_<<cvars, svars, clause>>

===============================================================================
