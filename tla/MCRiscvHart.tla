----------------------------- MODULE MCRiscvHart -----------------------------
(* Two or three harts, the first of which starts the others; what the guest *)
(* does is split over scenarios.                                            *)
EXTENDS RiscvHart

CONSTANTS h1, h2, h3

Guest2(ops, sets) == [harts |-> {h1, h2}, ops |-> ops, sets |-> sets,
                      fences |-> 0, stops |-> FALSE, lines |-> {}]

(* Three harts start and stop each other; two fence a third one; a device  *)
(* drives the line of one; one suspends and stops, and sends IPIs.        *)
SafetyScenarios ==
    {[Guest2({"start", "stop"}, {}) EXCEPT !.harts = {h1, h2, h3}],
     [Guest2({"fence", "start"}, {{h3}}) EXCEPT !.harts = {h1, h2, h3},
                                                !.fences = 2],
     [Guest2({"csr", "wfi", "start"}, {}) EXCEPT !.lines = {h2}],
     [Guest2({"csr", "wfi", "ipi", "stop", "suspend"}, {{h1}}) EXCEPT
        !.harts = {h1}, !.lines = {h1}]}

(* Two harts send each other IPIs, fence each other, and are stopped       *)
(* while they do this or sleep.                                            *)
LiveScenarios ==
    {Guest2({"wfi", "ipi", "start"}, {{h1, h2}}),
     [Guest2({"fence", "start"}, {{h1}, {h2}}) EXCEPT !.fences = 2],
     [Guest2({"fence", "start"}, {{h1}, {h2}}) EXCEPT
        !.fences = 1, !.stops = TRUE],
     [Guest2({"wfi", "start"}, {}) EXCEPT !.stops = TRUE]}
=============================================================================
