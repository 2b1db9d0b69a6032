----------------------------- MODULE MCWindowsOpen -----------------------------
(* Two Private openers and a Shared one, with every list of up to two of
   these entries as what is inherited: entries of the tests and of Windows'
   own directories, and some that are refused. *)
EXTENDS WindowsOpen

CONSTANTS o1, o2, o3

Owner == "S-1-5-21-1001"

LocalAdministrator == "S-1-5-21-500"

LocalGuest == "S-1-5-21-501"

ReadAndExecute == Mask({0, 3, 5, 7, 17, 20})    \* 0x1200a9

Entry ==
  {Ace("A", {"OI", "CI", "ID"}, Tokens({"FA"}), t) : t \in {Owner, "SY", "LA", "BU"}}
  \cup {Ace("A", {"ID"}, Mask(FileAll), Owner), Ace("A", {"ID"}, Unreadable, "WD"),
        Ace("A", {"ID"}, ReadAndExecute, "BU"), Ace("A", {"ID"}, Mask(FileWrite), "BU"),
        Ace("A", {"ID"}, Mask({20, 30}), "AU"), Ace("A", {}, Mask({2}), "AU"),
        Ace("A", {}, Tokens({"LC"}), "AU"), Ace("A", {}, Tokens({"CC"}), "BU"),
        Ace("A", {"OI", "CI", "IO"}, Tokens({"SD", "GX", "GW", "GR"}), "AU"),
        Ace("A", {"ID"}, Tokens({"FA"}), "S-1-5-21-1002"),
        Ace("D", {}, Tokens({"FA"}), "BU"),
        Ace("XA", {}, Tokens({"FA"}), Owner), Ace("malformed", {}, Unreadable, Owner)}

MCLists == {<<>>} \cup {<<x>> : x \in Entry} \cup {<<x, y>> : x, y \in Entry}

MCUsers == {Owner, LocalAdministrator, LocalSystem}

ServiceUsers == {LocalService}
=============================================================================
