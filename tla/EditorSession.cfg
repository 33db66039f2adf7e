SPECIFICATION Spec
CONSTANTS
    Edits <- MCEdits
    Projects <- MCProjects
    MaxReplacements = 2
INVARIANTS
    SettledEditorAgrees
    CoordinatorFollows
PROPERTIES
    SavedProjectReopens
    AboutKeepsLifecycle
