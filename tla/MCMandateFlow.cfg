SPECIFICATION Spec
CONSTANTS
    Thing = {lamp, jacket}
    Plancher <- MCPlancher
    Haut <- MCHaut
    Price = {1, 2}
    Posture = {"EQUILIBRE", "RAPIDE"}
    Options = {"ME_DEMANDER"}
    DefaultPosture = "EQUILIBRE"
    DefaultOptions = "ME_DEMANDER"
    MaxKills = 1
    MaxHurries = 0
    Null = Null
SYMMETRY Symmetry
INVARIANTS TypeOK MissionIsTheMandateConfirmed PremiumHasItsMission NoMandateLeaks
CHECK_DEADLOCK FALSE
