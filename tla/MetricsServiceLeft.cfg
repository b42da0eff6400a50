SPECIFICATION Spec
CONSTANTS
    a1 = a1
    a2 = a2
    s1 = s1
    s2 = s2
    img1 = img1
    img2 = img2
    c1 = c1
    c2 = c2
    t1 = t1
    t2 = t2
    p1 = p1
    p2 = p2
    cred = cred
    Tampered = Tampered
    Nil = Nil
    Agents = {a1}
    TokenSecrets = {s1, s2}
    Images = {img1, img2}
    Configs = {c1, c2}
    Tokens = {t1}
    Proxies = {p1}
    FleetCreds = {cred}
    Specs <- ClassicOnly
    Limits <- DeleteWithFault
    EarlyDelete = FALSE
    Foreground = {FALSE}
    SameSecond = FALSE
    Seconds = 3
CHECK_DEADLOCK FALSE
PROPERTIES
    ServicesRemoved
