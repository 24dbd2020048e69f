------------------------------- MODULE Login -------------------------------
(***************************************************************************)
(* What an RMDS login message means: UPALogin::processLoginResponse as     *)
(* operators from the flags the object keeps and a message to the new      *)
(* flags, the call its listeners get and the value returned.  The consumer *)
(* and the non-interactive provider share the class, and so the operators. *)
(***************************************************************************)

\* The stream and data state of a refresh or a status message, as far as
\* the code tells them apart; "unknownUser" is closed, with that code.
LoginStates == {"ok", "closedRecover", "closed", "unknownUser", "suspect"}

LoginMessages ==
  [class : {"refresh"}, state : LoginStates, solicited : BOOLEAN,
   decodes : BOOLEAN]
    \cup [class : {"status", "update", "close", "other"}, state : LoginStates,
          solicited : {FALSE}, decodes : {TRUE}]

LoginFlags == [closed : BOOLEAN, closedRecoverable : BOOLEAN,
               suspect : BOOLEAN, notEntitled : BOOLEAN]

\* The constructor.
NewFlags == [closed |-> FALSE, closedRecoverable |-> FALSE,
             suspect |-> TRUE, notEntitled |-> FALSE]

Accepts(m) == /\ m.class = "refresh" /\ m.decodes
              /\ m.solicited /\ m.state = "ok"

\* A refresh or a status that says the login is not, or no longer, good.
Refuses(m) == /\ m.class \in {"refresh", "status"} /\ m.decodes
              /\ m.state # "ok"

\* Success clears three of the flags; nothing else clears any.
FlagsAfter(flags, m) ==
  CASE Accepts(m) -> [flags EXCEPT !.closed = FALSE, !.suspect = FALSE,
                                   !.closedRecoverable = FALSE]
    [] Refuses(m) ->
         [closed |-> flags.closed \/ m.state \in {"closed", "unknownUser"},
          closedRecoverable |-> flags.closedRecoverable
                                  \/ m.state = "closedRecover",
          suspect |-> flags.suspect \/ m.state = "suspect",
          notEntitled |->
            \/ flags.notEntitled
            \/ m.class = "status" /\ m.state = "unknownUser"]
    [] m.class = "close" -> [flags EXCEPT !.closed = TRUE]
    [] OTHER -> flags

(* What the listeners are told: a close and an unhandled class are told as *)
(* success, an unsolicited refresh that is good is not told.               *)
LoginNotice(m) ==
  CASE Accepts(m) \/ m.class \in {"close", "other"} -> "succeeded"
    [] Refuses(m) \/ ~m.decodes -> "failed"
    [] OTHER -> "none"

ReturnsSuccess(m) == LoginNotice(m) = "none" \/ Accepts(m)

-----------------------------------------------------------------------------
(* What UPAConsumer::ProcessResponse makes of the returned value.  It looks *)
(* at the flags and not at the message, so an earlier one can still count. *)
ConsumerVerdict(flags, m) ==
  CASE ReturnsSuccess(m) -> "good"
    [] ~ReturnsSuccess(m) /\ (flags.notEntitled \/ flags.closed) -> "fail"
    [] ~ReturnsSuccess(m) /\ ~(flags.notEntitled \/ flags.closed)
         /\ flags.closedRecoverable -> "recover"
    [] OTHER -> IF flags.suspect THEN "suspect" ELSE "ignore"
=============================================================================
