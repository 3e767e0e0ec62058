---------------------------- MODULE MCProvision ----------------------------
\* Small instances of Provision: a folder with a file in it, a file beside it.
EXTENDS Provision, TLC

CONSTANTS data, conf, motd, root, app, node1, node2, text, old

MCParent == (data :> Root) @@ (conf :> data) @@ (motd :> Root)

\* The fields in the order TLC sorts them in: its workers share these values.
By(user, group) == [user |-> user, group |-> group]
FolderAt(p, mode, owner) == [mode |-> mode, owner |-> owner, path |-> p]
FileAt(p, content, mode, owner) ==
    [mode |-> mode, owner |-> owner, path |-> p, content |-> content]

Nobody == By(Undeclared, Undeclared)
AppUser == By(app, Undeclared)      \* a numeric user
AppGroup == By(Undeclared, app)     \* -1 and a group
App == By(app, app)
RootOwner == By(root, root)

\* Modes in octal: 448 is 0700, 384 is 0600, 438 is 0666, 1023 is 1777.  The
\* fourth config names paths twice, the last one has a file above a folder.
MCConfigs ==
    {[hostname |-> node1,
      folders |-> <<FolderAt(data, 448, Nobody)>>,
      files |-> <<FileAt(conf, text, 384, AppUser), FileAt(motd, text, Undeclared, Nobody)>>],
     [hostname |-> Undeclared,
      folders |-> <<FolderAt(data, Undeclared, AppGroup)>>,
      files |-> <<FileAt(motd, old, 438, AppGroup)>>],
     [hostname |-> node2, folders |-> <<>>, files |-> <<FileAt(conf, old, Undeclared, Nobody)>>],
     [hostname |-> Undeclared,
      folders |-> <<FolderAt(data, 1023, App), FolderAt(data, 493, Nobody)>>,
      files |-> <<FileAt(motd, text, 438, App), FileAt(motd, old, 1023, Nobody)>>],
     [hostname |-> Undeclared, folders |-> <<FolderAt(conf, Undeclared, AppUser)>>,
      files |-> <<FileAt(data, text, Undeclared, Nobody)>>]}

MCInitialFS ==
    {(data :> d) @@ (conf :> c) @@ (motd :> m) :
        d \in {Dir(493, RootOwner), Dir(448, App)},
        c \in {Absent, File(old, 420, RootOwner)},
        m \in {Absent, File(text, 420, RootOwner), Dir(493, RootOwner)}}
    \cup {(data :> d) @@ (conf :> Absent) @@ (motd :> Absent) :
            d \in {Absent, File(old, 384, App)}}
=============================================================================
