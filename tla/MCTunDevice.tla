---------------------------- MODULE MCTunDevice ----------------------------
(* TunDevice for TLC.  The devices are interchangeable; on Linux the names   *)
(* are too, where macOS numbers them.                                        *)
EXTENDS TunDevice, TLC

CONSTANTS a, b

UtunNames == <<a, b>>
NoUtunNames == <<>>
SymmetryOfDevices == Permutations(Devs)
SymmetryOnLinux == Permutations(Devs) \cup Permutations(Fixed)
=============================================================================
