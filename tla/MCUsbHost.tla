------------------------------ MODULE MCUsbHost ------------------------------
(***************************************************************************)
(* A low-speed keyboard and a full-speed mouse.                            *)
(***************************************************************************)
EXTENDS UsbHost, TLC

CONSTANTS kbd, mouse

MCLow == kbd :> TRUE @@ mouse :> FALSE
MCKind == kbd :> HID_K @@ mouse :> HID_M
=============================================================================
