-------------------------------- MODULE MCFs --------------------------------
(* Instances of Fs. *)
EXTENDS Fs, TLC

CONSTANTS p1, p2
MCTwo == {p1, p2}
MCSymmetry == Permutations(MCTwo)

Call(o, s) == [op |-> o, path |-> s, new |-> <<>>]
a == <<"/", "a">>
d == <<"/", "d">>
da == <<"/", "d", "a">>
MCCalls ==
  {Call("create", a), Call("create", <<"a">>), Call("create", <<"/", "d", ".">>),
   Call("mkdir", d), Call("mknod", a), Call("open", <<"..">>), Call("openw", d),
   Call("unlink", a), Call("unlink", d), Call("unlink", da),
   Call("chdir", d), Call("chdir", da), [op |-> "link", path |-> a, new |-> da]}

Dir(i, parent) == [type |-> "T_DIR", nlink |-> 1, lost |-> 0, ents |-> <<dirent(".", i), dirent("..", parent)>>]
Root(entries, n) == [EmptyDisk[1] EXCEPT !.nlink = n, !.ents = SubSeq(@, 1, 2) \o entries]
MCDisks == {
  EmptyDisk,
  [EmptyDisk EXCEPT ![1] = Root(<<dirent("d", 2), dirent("a", 3)>>, 2), ![2] = Dir(2, 1),
                    ![3] = [FreeDinode EXCEPT !.type = "T_FILE", !.nlink = 1]],
  [EmptyDisk EXCEPT ![1] = Root(<<dirent("d", 2)>>, 2), ![3] = Dir(3, 2),
                    ![2] = [Dir(2, 1) EXCEPT !.nlink = 2, !.ents = Append(@, dirent("a", 3))]]}
=============================================================================
