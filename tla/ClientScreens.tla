---------------------------- MODULE ClientScreens ----------------------------
(***************************************************************************)
(* The screens of the clients that show what others change meanwhile: the  *)
(* order screens or the merchant's product page. They share no data, so a  *)
(* behaviour is about the ones or the other.                               *)
(***************************************************************************)
EXTENDS OrderViews, ProductDesk

screenVars == <<vars, productVars>>

ScreensInit == Init /\ ProductDeskInit /\ (use = {} <=> status # <<>>)

ScreensNext ==
    \/ use = {} /\ Next /\ UNCHANGED productVars
    \/ use # {} /\ ProductDeskNext /\ UNCHANGED vars

ScreensSpec == ScreensInit /\ [][ScreensNext]_screenVars
=============================================================================
