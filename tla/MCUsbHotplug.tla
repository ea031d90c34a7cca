---------------------------- MODULE MCUsbHotplug ----------------------------
(* TLC instances of UsbHotplug: the devices a user has at hand. *)
EXTENDS UsbHotplug

(* A receiver with keyboard and mouse interface, and a device that is not HID. *)
ComboAndVendor == [d \in {"combo", "disk"} |->
    CASE d = "combo" -> <<"keyboard", "mouse">> [] d = "disk" -> <<"vendor">>]

(* A keyboard. *)
Keyboard == [d \in {"kbd"} |-> <<"keyboard">>]

=============================================================================
