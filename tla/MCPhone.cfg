SPECIFICATION PhoneSpec
CONSTANTS
    Thing = {lamp, jacket}
    Plancher <- MCPlancher
    Haut <- MCHaut
    Price = {1, 2}
    Posture = {"EQUILIBRE", "RAPIDE"}
    Options = {"ME_DEMANDER"}
    DefaultPosture = "EQUILIBRE"
    DefaultOptions = "ME_DEMANDER"
    MaxKills = 1
    MaxHurries = 0
    Email = {anna}
    Link = {k1, k2}
    Ask = {a1, a2}
    Check = {c1, c2}
    MaxCrashes = 1
    NoEmail = NoEmail
    NoLink = NoLink
    Task = {t1, t2}
    MaxBuffer = 2
    MaxEvents = 3
    MaxSessions = 3
    MaxChanges = 4
    Null = Null
    Photo = {p1, p2, p3}
    Batch = {{p1, p2}, {p2, p3}}
    Upload = {u1, u2}
    MaxPhotos = 2
    MaxCuts = 1
    Titre = {s1, s2}
    Asked = {10, 13}
    Estimate = 10
    Filter = {"TOUT", "ANNULEES"}
    Call = {q1, q2}
SYMMETRY Symmetry
INVARIANTS MissionIsTheMandateConfirmed NoMandateLeaks SignsInOnce NewestLinkIsLeft EventsAreConserved PhotosAreStored ContentIsOneForm
CHECK_DEADLOCK FALSE
