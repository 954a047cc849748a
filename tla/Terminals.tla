----------------------------- MODULE Terminals -----------------------------
(***************************************************************************)
(* Every screen of the application, one at a time: a tab that mounts one   *)
(* of the screens under check and stays on it, or comes back to it after   *)
(* it left.  The screens share the tab's state and the rules by which      *)
(* requests are sent, lost and answered (Tab); no step of one screen is    *)
(* possible on another, which is what lets one run check them all.         *)
(***************************************************************************)
EXTENDS SaleScreen, TicketScreen, PullScreen, ListScreen, FormScreen,
        TelegramCard, AccountScreen, BatchNumbers, SharedDevice,
        DatePicker

Init == \/ SaleInit \/ TicketInit \/ PullInit \/ ListInit
        \/ FormInit \/ TelegramInit \/ AccountInit \/ BatchInit \/ DeviceInit
        \/ PickerInit

Next == \/ SaleNext \/ TicketNext \/ PullNext \/ ListNext
        \/ FormNext \/ CardNext \/ AccountNext \/ BatchNext \/ DeviceNext
        \/ PickerNext

Spec == Init /\ [][Next]_tabVars
=============================================================================
