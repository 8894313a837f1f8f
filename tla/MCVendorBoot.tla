---------------------------- MODULE MCVendorBoot ----------------------------
(* Instances of VendorBoot for TLC. *)
EXTENDS VendorBoot

AllRequests == {"reflash", "install", "update"}

\* The failures the scripts notice, a death of the script and a power cut.
Noticed == {"read", "unpack", "strip", "repack", "write", "writeback", "readback", "backup",
            "kill", "power"}

=============================================================================
