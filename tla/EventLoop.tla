------------------------------- MODULE EventLoop -------------------------------
(***************************************************************************)
(* Class EventLoop (libsponge/util/eventloop.hh, .cc).  A rule is a pair   *)
(* of a file descriptor and a direction.  What the rules work on is a      *)
(* record w, with the loop in w.loop and the descriptors in w.fd; its user *)
(* says what the three callbacks of a rule do to it.  One call of          *)
(* wait_next_event is prepared, polled, and then one serve for each rule   *)
(* that poll reported: others may run in between.                          *)
(***************************************************************************)
EXTENDS Integers, Sequences

CONSTANTS
  Rules,           \* the rules, in the order they were added
  Interest(_, _),  \* Interest(r, w)
  Callback(_, _),  \* Callback(r, w): the set of outcomes
  Cancel(_, _),    \* Cancel(r, w)
  Revents(_, _)    \* Revents(fd, w): what poll(2) would say of it

\* rules: those not cancelled; asked: the rules with interest; seen: what poll
\* said; todo: the rules still to be served; thrown: what wait_next_event threw.
LoopNew ==
  [rules |-> {Rules[i] : i \in DOMAIN Rules}, asked |-> {}, seen |-> [r \in {} |-> {}],
   todo |-> {}, thrown |-> "no"]

cancelled(w, r) ==
  LET v == Cancel(r, w) IN [v EXCEPT !.loop.rules = @ \ {r}]

\* The loop that fills pollfds.
prepare(w, r) ==
  IF r \notin w.loop.rules THEN w
  ELSE IF (r[2] = "In" /\ w.fd[r[1]].eof) \/ w.fd[r[1]].closed THEN cancelled(w, r)
  ELSE IF Interest(r, w) THEN [w EXCEPT !.loop.asked = @ \cup {r}]
  ELSE w

prepared(w) ==
  LET upto[i \in 0..Len(Rules)] ==
        IF i = 0 THEN [w EXCEPT !.loop.asked = {}] ELSE prepare(upto[i - 1], Rules[i])
  IN  upto[Len(Rules)]

\* Errors and hangups are reported of every rule, the rest if it is asked for.
reported(w) ==
  [r \in w.loop.rules |->
     Revents(r[1], w) \cap ({"ERR", "HUP"} \cup (IF r \in w.loop.asked THEN {r[2]} ELSE {}))]

\* A hangup is only acted on if something was asked.
matters(w, r) ==
  LET seen == reported(w)[r]
  IN  "ERR" \in seen \/ r[2] \in seen \/ ("HUP" \in seen /\ r \in w.loop.asked)

\* Result::Exit: nothing is asked.
exits(w) == w.loop.asked = {}

\* poll has nothing to report, and waits.
silent(w) == \A r \in DOMAIN reported(w) : reported(w)[r] = {}

polled(w) ==
  [w EXCEPT !.loop.seen = reported(w),
            !.loop.todo = {r \in w.loop.rules : matters(w, r)}]

\* With a short timeout the two go together.
wait(w) == IF exits(prepared(w)) THEN prepared(w) ELSE polled(prepared(w))

\* The local variables are gone once it has returned.
returned(w) == [w EXCEPT !.loop.asked = {}, !.loop.seen = [r \in {} |-> {}]]

\* A callback that has not thrown must have read or written, or have lost
\* interest.
checked(w, r) ==
  IF w.loop.thrown # "no" THEN w
  ELSE IF r[2] \in w.fd[r[1]].serviced \/ ~Interest(r, w) THEN [w EXCEPT !.fd[r[1]].serviced = {}]
  ELSE [w EXCEPT !.loop.thrown = "busy wait", !.loop.todo = {}]

\* The first of them, in the order of the rules.
first(rules) ==
  Rules[CHOOSE i \in DOMAIN Rules :
          Rules[i] \in rules /\ \A j \in 1..(i - 1) : Rules[j] \notin rules]

\* One turn of the loop over the results of poll.
serve(w) ==
  LET r == first(w.loop.todo)
      v == [w EXCEPT !.loop.todo = @ \ {r}]
  IN  IF "ERR" \in w.loop.seen[r]
      THEN {[v EXCEPT !.loop.thrown = "poll error", !.loop.todo = {}]}
      ELSE IF r[2] \in w.loop.seen[r] THEN {checked(u, r) : u \in Callback(r, v)}
      ELSE {cancelled(v, r)}

================================================================================
