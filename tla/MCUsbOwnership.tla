---------------------------- MODULE MCUsbOwnership ----------------------------
(* UsbOwnership on a bounded number of power-ons.                           *)
EXTENDS UsbOwnership
=============================================================================
