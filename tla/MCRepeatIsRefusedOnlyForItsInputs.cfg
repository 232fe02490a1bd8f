SPECIFICATION Spec
CONSTANTS
    Procs <- MCProcs
    Contents <- MCOneContent
    Specs <- MCOneSpec
    Incidents <- MCStops
    MaxIncidents = 1
PROPERTY
    RepeatIsRefusedOnlyForItsInputs
