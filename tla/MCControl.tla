----------------------------- MODULE MCControl -----------------------------
(* Small function bodies for ControlRuns: every nesting of the statements   *)
(* two deep, of those that clean up three deep, and, around and in loops    *)
(* that own environments, those whose crossing matters to a commit.         *)
EXTENDS ControlRuns, Integers

El(form, at)     == [form |-> form, at |-> at, fresh |-> FALSE]
Own(form)        == [form |-> form, at |-> "body", fresh |-> TRUE]
Ways == <<El("try-catch", "try"), El("try-catch", "catch"), El("try-finally", "try"),
          El("try-finally", "finally"), El("try-catch-finally", "try"),
          El("try-catch-finally", "catch"), El("try-catch-finally", "finally"),
          El("while", "body"), El("do", "body"), El("for", "body"), El("gen", "body"),
          El("map", "body"), El("block", "body"), El("switch", "one"), El("switch", "two"),
          El("switch", "three")>>
Cleanup == <<El("try-finally", "try"), El("try-finally", "finally"), El("gen", "body"),
             El("while", "body"), El("map", "body"), El("try-catch-finally", "catch")>>

\* Loops that own an environment per iteration, the statements around and in
\* them, and what holds a jump up between such a loop and its target.
Owners  == <<Own("while"), Own("do"), Own("for"), Own("gen"), Own("map")>>
Holding == <<El("try-finally", "try"), El("try-catch", "try")>>
Around1 == <<El("while", "body"), El("block", "body"), El("gen", "body"), El("map", "body"),
             El("switch", "one"), El("try-finally", "finally"), El("try-catch", "catch")>> \o Holding

One(ws) == [i \in DOMAIN ws |-> <<ws[i]>>]
Nested(ws, us) ==
  LET n == Len(us)
  IN  <<>> \o [k \in 1 .. Len(ws) * n |-> <<ws[(k - 1) \div n + 1]>> \o us[((k - 1) % n) + 1]]
Two(ws)   == Nested(ws, One(ws))
Three(ws) == Nested(ws, Two(ws))

\* Such a loop in or around another statement, or another such loop, and one whose jumps
\* are held up on their way to a loop or a block.
Owned ==
  Nested(Owners, One(Around1)) \o Nested(Around1, One(Owners))
  \o Nested(SubSeq(Owners, 3, 4), One(<<Own("while"), Own("map")>>))
  \o Nested(SubSeq(Around1, 1, 2), Nested(Holding, One(SubSeq(Owners, 1, 1))))

Unit(kind, acts, inner) ==
  LET chain == <<El("unit", "body")>> \o inner
  IN  [chain |-> [chain EXCEPT ![Len(chain)].at = "none"], kind |-> kind, valued |-> TRUE, acts |-> acts]
Valueless(units) == [u \in DOMAIN units |-> [units[u] EXCEPT !.valued = FALSE]]
Bodies(kind, acts, chains) == <<>> \o [i \in DOMAIN chains |-> Unit(kind, acts, chains[i])]

MCUnits ==
  Bodies("sync", {"jump"}, Two(Ways)) \o Bodies("sync", {"jump"}, Three(SubSeq(Cleanup, 1, 4)))
  \o Valueless(Bodies("sync", {"jump"}, Two(Cleanup)))
  \o Bodies("generator", {"jump", "park"}, Nested(Cleanup, One(Ways)))
  \o Bodies("async", {"jump", "park"}, Two(Cleanup))
  \o Bodies("sync", {"jump", "bind"}, Owned)
  \o Bodies("sync", {"jump", "bind", "call"}, One(Around1))

\* A labelled block in a loop, and a break that names no label: with these for
\* Units, ControlExact fails (README, 6).
MCCaptured == Bodies("sync", {"jump", "captured"}, <<<<El("while", "body"), El("block", "body")>>>>)
=============================================================================
