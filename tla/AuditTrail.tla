----------------------------- MODULE AuditTrail -----------------------------
(***************************************************************************)
(* What the audit log promises its callers, without files, locks or        *)
(* hashes: each finished append has added its text to the trail exactly    *)
(* once, in one atomic step, and nothing is ever taken out or reordered.   *)
(* An append whose process dies may have added its text or not.  A text is *)
(* missing or unreadable only if `lost` says that some write failed.       *)
(***************************************************************************)
EXTENDS Naturals, Sequences

CONSTANTS Writer,      \* the processes
          Text,        \* the (masked) texts they may record
          NoText,      \* no text: nothing being recorded, an unreadable line
          InitTrails   \* the trails they may start from

VARIABLES trail,       \* the texts recorded so far, in order
          phase,       \* phase[w]: "idle", "pending" or "recorded"
          text,        \* text[w]: what w is recording
          lost         \* some write failed or was cut short

trailVars == <<trail, phase, text, lost>>

TrailInit ==
  /\ trail \in InitTrails
  /\ phase = [w \in Writer |-> "idle"]
  /\ text = [w \in Writer |-> NoText]
  /\ lost = FALSE

Begin(w, t) ==
  /\ phase[w] = "idle"
  /\ phase' = [phase EXCEPT ![w] = "pending"]
  /\ text' = [text EXCEPT ![w] = t]
  /\ UNCHANGED <<trail, lost>>

Record(w) ==
  /\ phase[w] = "pending"
  /\ phase' = [phase EXCEPT ![w] = "recorded"]
  /\ trail' = Append(trail, text[w])
  /\ UNCHANGED <<text, lost>>

\* The write fails or is cut short, or its text is glued to one that was.
Lose(w) ==
  /\ phase[w] = "pending"
  /\ phase' = [phase EXCEPT ![w] = "recorded"]
  /\ trail' \in {trail, Append(trail, NoText)}
  /\ lost' = TRUE
  /\ UNCHANGED text

Return(w) ==
  /\ phase[w] = "recorded"
  /\ phase' = [phase EXCEPT ![w] = "idle"]
  /\ text' = [text EXCEPT ![w] = NoText]
  /\ UNCHANGED <<trail, lost>>

Die(w) ==
  /\ phase[w] # "idle"
  /\ phase' = [phase EXCEPT ![w] = "idle"]
  /\ text' = [text EXCEPT ![w] = NoText]
  /\ UNCHANGED <<trail, lost>>

TrailNext ==
  \E w \in Writer :
    \/ \E t \in Text : Begin(w, t)
    \/ Record(w)
    \/ Lose(w)
    \/ Return(w)
    \/ Die(w)

TrailSpec == TrailInit /\ [][TrailNext]_trailVars
=============================================================================
