-------------------------- MODULE MCGraphcastAgent --------------------------
(* Two remote messages and one own message on two topics, two callback     *)
(* threads and one task that sends.                                        *)
EXTENDS GraphcastAgent, TLC

CONSTANTS r1, r2, own, indexing, versions, t1, t2, c1

MCMessages == {r1, r2, own}
MCOwnMessages == {own}
MCTopics == {indexing, versions}
MCTopicOf == (r1 :> indexing) @@ (r2 :> versions) @@ (own :> indexing)
MCSubtopicChoices == {{indexing}, {versions}, {}}
MCThreads == {t1, t2}
MCCallers == {c1}

=============================================================================
