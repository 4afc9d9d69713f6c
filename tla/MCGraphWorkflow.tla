---- MODULE MCGraphWorkflow ----
(***************************************************************************)
(* Small workflow documents for GraphWorkflowManager.                      *)
(***************************************************************************)
EXTENDS GraphWorkflowManager, TLC

CONSTANTS ext, f, a, s, g, none

\* A function and an agent in a cycle, both entered at once: the hop budget, the
\* process budget, the watcher's slot, a serial node and a parallel one.
CycleNodes == {f, a}
CycleKind == (f :> "inline") @@ (a :> "agent")
CycleEdges == (ext :> <<f>>) @@ (f :> <<a>>) @@ (a :> <<f>>)
CycleLimit == (f :> 1) @@ (a :> 2)

\* A parallel subprocess node reached by two edges, with identical
\* deliveries merged.
ParallelNodes == {s}
ParallelKind == s :> "subprocess"
ParallelEdges == (ext :> <<s, s>>) @@ (s :> <<>>)
ParallelLimit == s :> 2

\* A serial agent that starts itself again until max_hops cuts the cycle, and asks the user
\* each time: the answer to the guided step starts the agent once more.
JourneyNodes == {g, a}
JourneyKind == (g :> "guided_step") @@ (a :> "agent")
JourneyEdges == (ext :> <<a>>) @@ (g :> <<a>>) @@ (a :> <<a, g>>)
JourneyLimit == (g :> 1) @@ (a :> 1)

RunSymmetry == Permutations(Runs)

EventSymmetry == Permutations(Runs) \cup Permutations(Data)
====
