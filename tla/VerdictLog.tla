----------------------------- MODULE VerdictLog -----------------------------
(***************************************************************************)
(* What the history list of jni/ipqserver/server.c promises the sender,    *)
(* whatever it removes and whenever: it answers as if every verdict were   *)
(* kept for ever.  The log only grows; a look-up hits exactly when the     *)
(* log has a verdict for the socket that is not older than its validity.   *)
(* IpqServer is shown to implement it while the clock is not set back.     *)
(***************************************************************************)
EXTENDS Integers

CONSTANTS Socket, Validity

VARIABLES
  now,    \* the clock
  log,    \* <<socket, time>> of every verdict written so far
  answer  \* <<"hit" or "miss", socket>> of the look-up in use, or <<>>

logVars == <<now, log, answer>>

LogInit == now = 0 /\ log = {} /\ answer = <<>>

Passes ==
  /\ now' = now + 1
  /\ UNCHANGED <<log, answer>>

(* A verdict is stamped with a time already read, never before an older one. *)
Record ==
  /\ \E s \in Socket, t \in 0..now :
       /\ \A e \in log : e[2] <= t
       /\ log' = log \cup {<<s, t>>}
  /\ UNCHANGED <<now, answer>>

Lookup ==
  /\ answer = <<>>
  /\ \E s \in Socket :
       answer' = IF \E e \in log : e[1] = s /\ e[2] + Validity > now
                 THEN <<"hit", s>> ELSE <<"miss", s>>
  /\ UNCHANGED <<now, log>>

(* The packet is accepted or put to Java. *)
Answered ==
  /\ answer # <<>> /\ answer' = <<>>
  /\ UNCHANGED <<now, log>>

LogNext == Passes \/ Record \/ Lookup \/ Answered

LogSpec == LogInit /\ [][LogNext]_logVars
=============================================================================
