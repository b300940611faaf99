--------------------------- MODULE MCChromeInstall ---------------------------
(* ChromeInstall for TLC: one application that can be installed, and one    *)
(* without an installSpec (chrome-headless-shell).                          *)
EXTENDS ChromeInstall

Chrome == [app |-> "chrome", channel |-> "stable", platform |-> "linux64"]
Shell == [app |-> "chrome-headless-shell", channel |-> "stable", platform |-> "linux64"]

TwoRequests == {Chrome, Shell}
TwoDirs == <<"Default", "segmentation_platform">>

=============================================================================
