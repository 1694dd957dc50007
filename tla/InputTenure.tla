---------------------------- MODULE InputTenure ----------------------------
(***************************************************************************)
(* InputSelect with a history variable: for how long the present choice of *)
(* active inputs has stood, counted as age is.                             *)
(***************************************************************************)
EXTENDS InputSelect

VARIABLE tenure

TenureInit == Init /\ tenure = 0

TenureNext ==
  /\ Next
  /\ tenure' = IF active' # active THEN 0
               ELSE IF waited' /\ ~waited THEN Older(tenure) ELSE tenure

TenureSpec == TenureInit /\ [][TenureNext]_<<vars, tenure>>

\* An input is given up for lack of data only after the switch delay: "the
\* delay after an input interruption before switching" (edi2edi.cpp:69).  The
\* loop measures from the last packet of the input, which for an input that
\* has just become active is an old one, or none.
SwitchDelayHonoured ==
  [][ pc = "select" /\ active \subseteq enabled /\ IsRunningOk
      /\ active \ active' # {} => tenure > SwitchDelay ]_<<vars, tenure>>
=============================================================================
