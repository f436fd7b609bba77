----------------------------- MODULE CyclePolicy -----------------------------
(***************************************************************************)
(* How long a block the decode loop drafts and whether it may copy it from *)
(* the text: the adaptive block policy (spec_epoch.py, modes full, reduced *)
(* and probe) and the automatic copyspec gate (copyspec.py), both fed by   *)
(* the loop once a cycle.  A cycle drafts `block - 1` tokens, commits      *)
(* 1 + accepted of them and takes some time; rates are compared as         *)
(* fractions <<tokens, time>>.  Counters that are only reported are left   *)
(* out.                                                                    *)
(***************************************************************************)
EXTENDS Naturals, Sequences, SequencesExt

CONSTANTS Block, MinBlock,                 \* full_block_tokens, min_block_tokens
          Window, Burst, Recent,           \* window_size, reduced_burst_cycles, reduced_commits
          ProbeCycles, EarlyCycles,        \* probe_cycles, early_probe_cycles
          EarlyMin, EarlyWindow, EarlyRate,\* early_probe_min_cycles, _window, _full_acceptance
          DropRate, ResumeRate, LeastTokens,\* the thresholds, as <<n, d>>
          OffCycles, OnCopies, OnCycles,   \* probe_off_cycles, probe_on_min_copy, _max_cycles
          Latch, BackoffCap,               \* latch_cycles, backoff_cap
          Times, Clock,                    \* what a cycle may take; the clock's reading
          Absent                           \* no policy, no gate, no rate

CyclePolicyAssumption ==
    /\ MinBlock \in Nat \ {0, 1} /\ Block > MinBlock /\ Window > 1 /\ EarlyWindow > 0 /\ Recent > 0
    /\ OffCycles > 0 /\ OnCopies > 0 /\ OnCycles > 0 /\ Latch > 0
    /\ Times \subseteq Nat \ {0} /\ Clock \in Nat \ {0}

VARIABLES policy,      \* adaptive_block_policy, or Absent
          gate,        \* copyspec_auto_gate, or Absent
          long,        \* the prompt is long (long_context_prompt_tokens)
          left,        \* tokens left of max_new_tokens; Block stands for Block or more
          source,      \* where the next block comes from: "copyspec" or "dflash"
          spell, before, failed, tries  \* history: the cycles of the current mode; those of
              \* the mode before it, where a decision is about them; the last probe failed;
              \* the cycles of the gate's trial

vars == <<policy, gate, long, left, source, spell, before, failed, tries>>

Total(s) == FoldSeq(LAMBDA x, sum : x + sum, 0, s)
LastOf(s, n) == SubSeq(s, IF Len(s) > n THEN Len(s) - n + 1 ELSE 1, Len(s))
AtLeast(rate, bound) == rate[1] * bound[2] >= bound[1] * rate[2]
Least(S) == CHOOSE n \in S : \A k \in S : n <= k

-----------------------------------------------------------------------------
(* The adaptive policy. *)

\* A new policy; it exists only for blocks that can be shortened, and starts
\* reduced when the prompt is long.
FreshPolicy ==
    [mode |-> IF long THEN "reduced" ELSE "full", since |-> 0, probing |-> 0,
     early |-> FALSE, lockout |-> FALSE, full |-> <<>>, probe |-> <<>>, probeTime |-> <<>>,
     reduced |-> <<>>, reducedTime |-> <<>>, accepts |-> <<>>]

BlockLimit == IF policy # Absent /\ policy.mode = "reduced" THEN MinBlock ELSE Block

\* The share of accepted drafts among the tokens committed, and tokens a cycle.
WindowStats(commits) ==
    LET total == Total(commits)
    IN [rate |-> <<total - Len(commits), total>>, tokens |-> <<total, Len(commits)>>]

\* Mutant: the windows of the mode before stay.
EnterReducedKeeping(p, lockout) == [p EXCEPT !.mode = "reduced", !.since = 0, !.lockout = lockout]

EnterReduced(p, lockout) ==
    [FreshPolicy EXCEPT !.mode = "reduced", !.lockout = lockout]

EnterProbe(p, early) ==
    [p EXCEPT !.mode = "probe", !.early = early, !.lockout = early /\ @,
              !.probing = IF early THEN EarlyCycles ELSE ProbeCycles,
              !.probe = <<>>, !.probeTime = <<>>, !.accepts = <<>>]

ShouldProbeEarly(p) ==
    /\ EarlyMin > 0 /\ ~p.lockout /\ p.since >= EarlyMin
    /\ Len(p.accepts) >= EarlyWindow
    /\ AtLeast(<<Total(p.accepts), Len(p.accepts)>>, EarlyRate)

RecordReduced(p, block, accepted, time) ==
    LET q == [p EXCEPT !.since = @ + 1, !.reduced = LastOf(Append(@, accepted + 1), Recent),
                       !.reducedTime = LastOf(Append(@, time), Recent),
                       !.accepts = LastOf(Append(@, IF block > 1 /\ accepted >= block - 1
                                                    THEN 1 ELSE 0), EarlyWindow)]
    IN IF ShouldProbeEarly(q) THEN EnterProbe(q, TRUE)
       ELSE IF q.since >= Burst THEN EnterProbe(q, FALSE) ELSE q

\* Mutants: the time the tokens took is not looked at; no lockout after a failure.
EndProbeByTokens(p) ==
    LET stats == WindowStats(p.probe)
    IN IF AtLeast(stats.rate, ResumeRate) /\ AtLeast(stats.tokens, LeastTokens)
       THEN [p EXCEPT !.mode = "full", !.since = 0, !.probe = <<>>, !.probeTime = <<>>,
                      !.accepts = <<>>, !.full = <<>>, !.probing = 0]
       ELSE EnterReduced(p, TRUE)
EndProbeUnlocked(p) == EnterReduced(p, FALSE)

\* The probe is over: full blocks again if they were accepted and no slower.
EndProbe(p) ==
    LET stats == WindowStats(p.probe)
        fast == \/ p.reduced = <<>>
                \/ AtLeast(<<Total(p.probe), Total(p.probeTime)>>,
                           <<Total(p.reduced), Total(p.reducedTime)>>)
    IN IF AtLeast(stats.rate, ResumeRate) /\ AtLeast(stats.tokens, LeastTokens) /\ fast
       THEN [p EXCEPT !.mode = "full", !.since = 0, !.probe = <<>>, !.probeTime = <<>>,
                      !.accepts = <<>>, !.full = <<>>, !.probing = 0]
       ELSE EnterReduced(p, TRUE)

RecordFull(p, accepted, time) ==
    LET q == [p EXCEPT !.full = LastOf(Append(@, accepted + 1), Window)]
        r == [q EXCEPT !.probe = Append(@, accepted + 1), !.probeTime = Append(@, time),
                       !.probing = IF @ > 0 THEN @ - 1 ELSE 0]
        stats == WindowStats(q.full)
    IN IF p.mode = "probe" THEN (IF r.probing > 0 THEN r ELSE EndProbe(r))
       ELSE IF Len(q.full) < Window THEN q
       ELSE IF AtLeast(stats.rate, DropRate) /\ AtLeast(stats.tokens, LeastTokens) THEN q
       ELSE EnterReduced(q, FALSE)

\* A short block counts only in reduced mode; at the end of a reply it does not
\* tell how full blocks do.
Record(p, block, accepted, time) ==
    CASE p = Absent -> Absent
      [] p # Absent /\ p.mode = "reduced" /\ block < Block -> RecordReduced(p, block, accepted, time)
      [] p # Absent /\ block >= Block -> RecordFull(p, accepted, time)
      [] OTHER -> p

-----------------------------------------------------------------------------
(* The copyspec gate. *)

NewWindow(g) == [g EXCEPT !.commits = 0, !.time = 0, !.cycles = 0, !.copies = 0]

FreshGate == [phase |-> "measure_off", commits |-> 0, time |-> 0, cycles |-> 0, copies |-> 0,
              off |-> Absent, latch |-> 0, pending |-> FALSE, losses |-> 0]

\* Mutant: copies while the baseline is measured.
EngageCopyUnlessDormant(g) == g = Absent \/ g.phase # "dormant"

EngageCopy(g) == g = Absent \/ g.phase \in {"measure_on", "engaged"}

Rate(g) == <<g.commits, g.time>>

\* Mutant: the policy keeps what copying did to it.
DisengageOnly(g) ==
    [NewWindow(g) EXCEPT !.phase = "dormant",
                         !.losses = Least({@ + 1, BackoffCap}), !.latch = Latch * 2 ^ g.losses]

\* Each loss in a row doubles the pause, up to the cap: losses beyond it are not told
\* apart.
Disengage(g) ==
    [NewWindow(g) EXCEPT !.phase = "dormant", !.pending = TRUE,
                         !.losses = Least({@ + 1, BackoffCap}), !.latch = Latch * 2 ^ g.losses]

EndTrial(g) ==
    IF g.copies = 0 \/ ~AtLeast(Rate(g), g.off) THEN Disengage(g)
    ELSE [NewWindow(g) EXCEPT !.phase = "engaged", !.latch = Latch, !.losses = 0]

\* One cycle: into the window, then the phase moves on.
RecordCycle(g, src, commits, time) ==
    LET w == [g EXCEPT !.commits = @ + commits, !.time = @ + time, !.cycles = @ + 1,
                       !.copies = IF src = "copyspec" THEN @ + 1 ELSE @]
        l == [w EXCEPT !.latch = @ - 1]
    IN CASE g.phase = "measure_off" ->
              IF w.cycles < OffCycles THEN w
              ELSE [NewWindow(w) EXCEPT !.phase = "measure_on", !.off = Rate(w)]
         [] g.phase = "measure_on" ->
              IF w.copies >= OnCopies \/ w.cycles >= OnCycles THEN EndTrial(w) ELSE w
         [] g.phase \in {"engaged", "dormant"} ->
              IF l.latch > 0 THEN l
              ELSE [NewWindow(l) EXCEPT !.phase = "measure_off",
                                        !.pending = @ \/ g.phase = "engaged"]

-----------------------------------------------------------------------------
(* The loop. *)

Init ==
    /\ long \in BOOLEAN
    /\ policy \in {Absent, FreshPolicy} /\ gate \in {Absent, FreshGate}
    /\ left = Block /\ source = "dflash"
    /\ spell = <<>> /\ before = <<>> /\ failed = FALSE /\ tries = <<>>

Of(cycles, field) == [i \in DOMAIN cycles |-> cycles[i][field]]
Whole(cycles) == SelectSeq(cycles, LAMBDA c : c.block = Block)
Short(cycles) == SelectSeq(cycles, LAMBDA c : c.block < Block)

\* What a cycle that commits `n` tokens leaves.
LeftAfter(n) == IF left = Block THEN 0 .. Block ELSE {left - n}

\* The histories: cut where the mode or the phase changes, and no longer than a
\* decision looks back.
Follow(cycle, fresh) ==
    LET old == IF fresh THEN <<>> ELSE spell
        mode == IF fresh THEN FreshPolicy.mode ELSE policy.mode
        now == Append(old, cycle)
    IN IF policy' = Absent THEN UNCHANGED <<spell, before, failed>>
       ELSE /\ spell' = IF policy'.mode # mode THEN <<>>
                        ELSE IF mode = "full" THEN LastOf(Whole(now), Window) ELSE now
            /\ before' = IF policy'.mode # mode THEN now
                         ELSE IF mode = "probe" THEN before ELSE <<>>
            /\ failed' = CASE policy'.mode = "full" \/ fresh -> FALSE
                           [] mode = "probe" /\ policy'.mode = "reduced" -> TRUE
                           [] OTHER -> failed

\* The time the gate is told.  The loop notes when a cycle begins only for the
\* policy (or a profile): without one it subtracts nothing from the clock, whose
\* reading hardly changes from cycle to cycle.
CycleCost(time) == IF policy = Absent THEN Clock ELSE time

\* The last part of the loop's body: the gate and the policy take the cycle in,
\* then the next block is drafted (or copied, where the text allows).
Cycle(accepted, time, found) ==
    LET block == Least({Block, BlockLimit, left})
        g == IF gate = Absent \/ block <= 1 THEN gate
             ELSE RecordCycle(gate, source, accepted + 1, CycleCost(time))
        reset == g # Absent /\ g.pending /\ policy # Absent
        \* from_runtime() reads nothing that changes
        p == IF reset THEN FreshPolicy ELSE policy
    IN /\ left > 0 /\ accepted < block
       /\ gate' = IF g = Absent THEN Absent ELSE [g EXCEPT !.pending = FALSE]
       /\ policy' = Record(p, block, accepted, time)
       /\ left' \in LeftAfter(accepted + 1)
       /\ source' = IF found /\ EngageCopy(gate') THEN "copyspec" ELSE "dflash"
       /\ Follow([block |-> block, commits |-> accepted + 1, time |-> time], reset)
       /\ tries' = IF g = Absent \/ block <= 1 THEN tries
                   ELSE LET now == Append(tries, [copied |-> source = "copyspec",
                                                  commits |-> accepted + 1, time |-> time])
                        IN CASE g.phase = gate.phase /\ g.phase \in {"measure_off", "measure_on"} -> now
                             [] gate.phase = "measure_off" /\ g.phase = "measure_on" -> <<>>
                             [] OTHER -> <<>>
       /\ UNCHANGED long

Next == \E accepted \in 0 .. Block - 1, time \in Times, found \in BOOLEAN : Cycle(accepted, time, found)

Spec == Init /\ [][Next]_vars

-----------------------------------------------------------------------------
\* What the policy decides from is what was measured since it last changed its
\* mode, and nothing older: the windows hold the cycles of the mode they are for,
\* and a probe is compared with the reduced cycles right before it.
WindowsAreCurrent ==
    policy # Absent =>
        LET reduced == IF policy.mode = "reduced" THEN spell ELSE before
        IN /\ policy.mode = "full" => policy.full = Of(LastOf(Whole(spell), Window), "commits")
           /\ policy.mode \in {"reduced", "probe"} =>
                /\ policy.reduced = Of(LastOf(Short(reduced), Recent), "commits")
                /\ policy.reducedTime = Of(LastOf(Short(reduced), Recent), "time")
           /\ policy.mode = "probe" => /\ policy.probe = Of(Whole(spell), "commits")
                                       /\ policy.probeTime = Of(Whole(spell), "time")

\* A reply never stays with short blocks: a reduced spell ends in a probe after
\* Burst cycles at the latest, and a probe that failed is followed by a whole
\* burst, however well the short blocks are accepted.
ProbesAreSpaced ==
    policy # Absent =>
        /\ policy.mode = "reduced" => Len(Short(spell)) < Burst
        /\ policy.mode = "probe" => /\ Len(Short(before)) <= Burst
                                    /\ failed => Len(Short(before)) = Burst
                                    /\ policy.probing > 0

\* The gate's baseline holds no copied block, so copying is engaged only when it
\* was seen, and seen to be no slower.
BaselineIsPure ==
    gate # Absent =>
        /\ gate.phase = "measure_off" => \A i \in DOMAIN tries : ~tries[i].copied
        /\ gate.phase \in {"measure_off", "measure_on"} =>
             /\ gate.commits = Total(Of(tries, "commits"))
             /\ policy # Absent => gate.time = Total(Of(tries, "time"))
        /\ gate.phase \in {"measure_off", "dormant"} => source = "dflash"
        /\ gate.latch <= Latch * 2 ^ BackoffCap

PolicyInvariant == WindowsAreCurrent /\ ProbesAreSpaced /\ BaselineIsPure

\* Full blocks come back only when the probe was, over its own cycles, accepted
\* and no slower than the reduced cycles before it; and when the gate lets go of
\* copying, the policy forgets what copying did to it.
ResumesFaster ==
    [][policy # Absent =>
        /\ policy.mode = "probe" /\ policy'.mode = "full" /\ before' # <<>> /\ Short(before) # <<>> =>
             AtLeast(<<Total(Of(Whole(before'), "commits")), Total(Of(Whole(before'), "time"))>>,
                     <<Total(Of(LastOf(Short(before), Recent), "commits")),
                       Total(Of(LastOf(Short(before), Recent), "time"))>>)
        /\ gate # Absent /\ EngageCopy(gate) /\ ~EngageCopy(gate') =>
             Len(spell') <= 1 /\ failed' = FALSE]_vars
==============================================================================
