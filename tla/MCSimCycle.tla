----------------------------- MODULE MCSimCycle -----------------------------
(* Workloads for model checking SimCycle.                                  *)
EXTENDS SimCycle

\* Three jobs on two nodes: the second and third arrive together, the third
\* can be backfilled around the second.
MCSubmit    == <<1, 2, 2>>
MCDuration  == <<2, 1, 1>>
MCTimeLimit == <<9, 9, 9>>
MCWidth     == <<1, 2, 1>>

\* Two jobs, the second of which needs the node of the first.
MCSubmitSeq    == <<1, 2>>
MCDurationSeq  == <<2, 1>>
MCTimeLimitSeq == <<9, 9>>
MCWidthSeq     == <<1, 2>>

\* Two jobs that start and end together.
MCSubmitPair    == <<1, 1>>
MCDurationPair  == <<1, 1>>
MCTimeLimitPair == <<9, 9>>
MCWidthPair     == <<1, 1>>

\* One short job.
MCSubmitOne    == <<1>>
MCDurationOne  == <<1>>
MCTimeLimitOne == <<9>>
MCWidthOne     == <<1>>

\* One job that outruns its time limit.
MCSubmitOver    == <<1>>
MCDurationOver  == <<4>>
MCTimeLimitOver == <<1>>
MCWidthOver     == <<1>>

\* Two jobs that compete for one node; the first runs into its time limit.
MCSubmitLimit    == <<1, 1>>
MCDurationLimit  == <<4, 1>>
MCTimeLimitLimit == <<1, 9>>
MCWidthLimit     == <<1, 2>>
=============================================================================
