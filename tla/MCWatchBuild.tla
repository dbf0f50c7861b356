--------------------------- MODULE MCWatchBuild ---------------------------
(* Instances of WatchBuild for TLC. *)
EXTENDS WatchBuild, TLC

Given(settings) ==
  settings @@ [s \in Settings |-> Unset]

\* polygl build --watch, and one with a source, an output and a configuration.
MCRequests ==
  {[explicit |-> FALSE] @@ DefaultConfig,
   [explicit |-> TRUE] @@ Given([entry |-> "one", hashed |-> "yes"])}

Config(settings) == [kind |-> "config"] @@ Given(settings)
Program(code, text, textures) ==
  [kind |-> "program", code |-> code, text |-> text, textures |-> textures]
Image(n) == [kind |-> "image", pixels |-> n]
Page(markers, text) == [kind |-> "page", markers |-> markers, text |-> text]
Directory(holds) == [kind |-> "directory", holds |-> holds]
Broken == [kind |-> "broken"]

Packaged == Config([entry |-> "one", template |-> "page", public |-> "public"])
\* Another entry, and its directory as the output: the files may not be there.
Clashing == Config([entry |-> "two", output |-> "work"])
Switched == Config([entry |-> "two", hashed |-> "yes", public |-> "public"])
Plain == Config([entry |-> "two"])
\* The content of sources in a map that a release build does not write.
Contradictory == Config([entry |-> "one", mode |-> "release", content |-> "yes"])

MCInitFiles ==
  [config |-> Packaged,
   one    |-> Program(1, 1, {"wood"}),
   two    |-> Program(2, 1, {}),
   wood   |-> Image(1),
   page   |-> Page(1, 1),
   public |-> Directory([logo |-> 1])]

At(path, contents) == [path |-> path, contents |-> contents]
\* A line of comment added to a program changes its text but not its code.
MCSaves ==
  {At("config", c) : c \in {Packaged, Switched, Clashing, Plain, Contradictory, Garbled,
                            Missing}}
  \cup {At("one", c) : c \in {Program(1, 2, {"wood"}), Program(2, 1, {}), Broken}}
  \cup {At("two", c) : c \in {Program(2, 2, {}), Missing}}
  \cup {At("wood", c) : c \in {Image(1), Image(2), Missing}}
  \cup {At("page", c) : c \in {Page(1, 1), Page(1, 2), Page(2, 1)}}
  \cup {At("public", c) : c \in {Directory([logo |-> 1]), Unreadable,
                                 Directory("app.js" :> 1)}}

MCInside == [dist |-> {}, work |-> {"two", "one", "wood"},
             public |-> {}]
=============================================================================
