SPECIFICATION Spec
CONSTANTS
    g1 = g1
    Users = {admin, u1}
    Groups = {wheel, staff}
    Graphs = {g1, g2}
    ADMIN = admin
    AdminGroup = wheel
    None = none
    BootGraphs <- MCBoot
INVARIANTS ListedUsersExist MembersHaveGroups RowsExact
PROPERTY OwnersKept
