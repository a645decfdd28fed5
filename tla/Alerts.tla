------------------------------- MODULE Alerts -------------------------------
(***************************************************************************)
(* Alerts to the operator: the webhook's bounded queue and the thread that *)
(* posts it (webhook.c), and the geofence that turns a node's positions    *)
(* into entries and exits (geofence.c).  An alert is its event name; its   *)
(* wording is left out.  The webhook's lock covers queue operations only,  *)
(* so each is a step; a post is made without it.                           *)
(***************************************************************************)
EXTENDS Integers, Sequences, FiniteSets

CONSTANTS
  HookOn,     \* events named with --webhook-on, <<>> without the option
  MaxAllow,   \* WEBHOOK_MAX_EVENTS
  HookCap,    \* WEBHOOK_QUEUE_CAP
  FenceFile,  \* lines of the geofence file: a "name", a "vertex" or "other"
  MaxPolys,   \* GEO_MAX_POLYGONS
  MaxVerts,   \* GEO_MAX_VERTICES
  FenceSlots  \* GEO_STATE_BUCKETS

ASSUME AlertAssumption ==
  /\ MaxAllow \in Nat /\ HookCap \in Nat /\ MaxPolys \in Nat /\ MaxVerts \in Nat
  /\ FenceSlots \in Nat

VARIABLES
  hookq,    \* alerts waiting, oldest first
  hook,     \* the posting thread
  hookRun,  \* g_run
  tally,    \* alerts posted (sent or failed), dropped, and (history)
            \* freed unsent
  owed,     \* history: alerts the operator asked for and that were raised
  fence     \* <<node, polygon>> -> inside

hookVars == <<hookq, hook, hookRun, tally, owed>>
alertVars == <<hookVars, fence>>

-----------------------------------------------------------------------------
(* webhook.c *)

DefaultEvents == <<"PSK_DISCOVERED", "OFF_GRID_LORA", "GEOFENCE_ENTRY", "GEOFENCE_EXIT">>

\* webhook_init: the events of the option, or the default ones.
Allowlist ==
  LET on == IF HookOn = <<>> THEN DefaultEvents ELSE HookOn
  IN {on[i] : i \in {i \in DOMAIN on : i <= MaxAllow}}

\* event_allowed
EventAllowed(name) == name \in Allowlist

\* A queue that reuses its slot when it is full, uncounted.
WebhookPublishOver(name) ==
  /\ IF ~EventAllowed(name) THEN UNCHANGED <<hookq, tally, owed>>
     ELSE /\ owed' = owed + 1
          /\ hookq' = Append(IF Len(hookq) >= HookCap THEN Tail(hookq) ELSE hookq, name)
          /\ UNCHANGED tally
  /\ UNCHANGED <<hook, hookRun>>

\* webhook_publish: an alert nobody asked for is nothing; one that finds the
\* queue full is counted as dropped.  The thread may have given up long ago.
WebhookPublish(name) ==
  /\ IF ~EventAllowed(name) THEN UNCHANGED <<hookq, tally, owed>>
     ELSE /\ owed' = owed + 1
          /\ IF Len(hookq) >= HookCap
             THEN /\ tally' = [tally EXCEPT !.dropped = @ + 1]
                  /\ UNCHANGED hookq
             ELSE hookq' = Append(hookq, name) /\ UNCHANGED tally
  /\ UNCHANGED <<hook, hookRun>>

\* webhook_thread's loop: wait for an alert and take the oldest, or leave and
\* free what is queued.
HookTake ==
  /\ hook.pc = "loop"
  /\ \/ /\ hookRun /\ hookq # <<>>
        /\ hook' = [pc |-> "post", item |-> Head(hookq)]
        /\ hookq' = Tail(hookq) /\ UNCHANGED tally
     \/ /\ ~hookRun
        /\ hook' = [pc |-> "gone"]
        /\ hookq' = <<>> /\ tally' = [tally EXCEPT !.unsent = Len(hookq)]
  /\ UNCHANGED <<hookRun, owed>>

\* post_one: a 2xx answer in time or a failure, counted apart in the code; a
\* failed post is not repeated.
PostOne ==
  /\ hook.pc = "post"
  /\ tally' = [tally EXCEPT !.posted = @ + 1]
  /\ hook' = [pc |-> "loop"]
  /\ UNCHANGED <<hookq, hookRun, owed>>

\* webhook_stop up to the join.
WebhookStop ==
  /\ hookRun' = FALSE
  /\ UNCHANGED <<hookq, hook, tally, owed>>

-----------------------------------------------------------------------------
(* geofence.c *)

\* geofence_init: a name begins a polygon while there is room; vertices go to
\* the last one begun, up to its limit.
Polygons ==
  LET upTo[n \in 0..Len(FenceFile)] ==
        IF n = 0 THEN <<>>
        ELSE LET ps == upTo[n - 1]  l == FenceFile[n] IN
             CASE l.kind = "name" /\ Len(ps) < MaxPolys -> Append(ps, <<>>)
               [] /\ l.kind = "vertex" /\ ps # <<>>
                  /\ Len(ps[Len(ps)]) < MaxVerts -> [ps EXCEPT ![Len(ps)] = Append(@, l.at)]
               [] OTHER -> ps
  IN upTo[Len(FenceFile)]

\* A polygon needs three vertices, and the geofence one such polygon.
UsablePolygons == {i \in DOMAIN Polygons : Len(Polygons[i]) >= 3}

\* The edge from a to b is crossed by the ray from p towards larger
\* longitudes; coordinates are <<lat, lon>>.
Crosses(a, b, p) ==
  /\ (a[1] > p[1]) # (b[1] > p[1])
  /\ LET side == (b[2] - a[2]) * (p[1] - a[1]) - (p[2] - a[2]) * (b[1] - a[1])
     IN IF b[1] > a[1] THEN side > 0 ELSE side < 0

\* point_in_polygon: an odd number of edges is crossed.
PointInPolygon(poly, p) ==
  Cardinality({i \in DOMAIN poly : Crosses(poly[(i % Len(poly)) + 1], poly[i], p)}) % 2 = 1

\* state_find_or_make: the flag of a node and a polygon, new ones outside;
\* no flag when the table is full.
FenceState(node, i) ==
  IF <<node, i>> \in DOMAIN fence THEN {fence[<<node, i>>]}
  ELSE IF Cardinality(DOMAIN fence) < FenceSlots THEN {FALSE} ELSE {}

NoEvent == "none"

\* geofence_check for one polygon: the new table, and the event if the node
\* has crossed the boundary.
Crossing(node, i, p) ==
  LET was == FenceState(node, i)
      in  == PointInPolygon(Polygons[i], p)
  IN [table |-> IF was = {} THEN fence
                ELSE [k \in DOMAIN fence \cup {<<node, i>>} |-> IF k = <<node, i>> THEN in ELSE fence[k]],
      event |-> CASE was = {} \/ was = {in} -> NoEvent
                  [] was = {FALSE} /\ in -> "GEOFENCE_ENTRY"
                  [] was = {TRUE} /\ ~in -> "GEOFENCE_EXIT"]

\* webhook_init has started the thread, which got a handle from libcurl or
\* gave up.
AlertInit ==
  /\ hookq = <<>> /\ hookRun \in BOOLEAN
  /\ hook = IF hookRun THEN [pc |-> "loop"] ELSE [pc |-> "gone"]
  /\ tally = [posted |-> 0, dropped |-> 0, unsent |-> 0]
  /\ owed = 0
  /\ fence = [k \in {} |-> FALSE]

-----------------------------------------------------------------------------
\* Every alert the operator asked for is accounted for at any moment: posted,
\* failed, counted as dropped, waiting, being posted, or, once the thread has
\* left, freed unsent; none vanishes and none is counted twice, whether the
\* threads that raise them find the queue full or the posting thread gone
\* (webhook.c).
AlertsAccounted ==
  owed = tally.posted + tally.dropped + tally.unsent + Len(hookq)
         + (IF hook.pc = "post" THEN 1 ELSE 0)
=============================================================================
