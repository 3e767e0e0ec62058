---------------------------- MODULE MCContainers ----------------------------
\* Small instances of Containers: two declared containers that may exchange
\* their host ports or change a setting, a container nobody declared, and a
\* list with one name twice.
EXTENDS Containers

CONSTANTS web, db, stray, app, base

At(name, image, port, setting) ==
    [name |-> name, image |-> image, port |-> port, setting |-> setting]

Site == <<At(web, app, 1, 1), At(db, base, 2, 1)>>
Swapped == <<At(web, app, 2, 1), At(db, base, 1, 1)>>
Changed == <<At(web, base, 1, 2)>>

Twice == <<At(web, app, 1, 1), At(web, app, 2, 1)>>

MCLists == {<<>>, Site, Swapped, Changed, Twice}
=============================================================================
