CONSTANTS
    admin = admin
    boss = boss
    clerk = clerk
    p1 = p1
    p2 = p2
    NoPassword = NoPassword
    s1 = s1
    s2 = s2
    r1 = r1
    r2 = r2
    Users = {admin, boss, clerk}
    Admins = {admin, boss}
    Boot = {admin, clerk}
    BootAdmin = admin
    Passwords = {p1, p2}
    Sessions = {s1, s2}
    Requests = {r1, r2}
SPECIFICATION Spec
INVARIANT AdminRemains
SYMMETRY Symmetric
