SPECIFICATION Spec
CONSTANTS
    None = None
    Choices <- MCChoices
INVARIANT
    DefaultsAsDocumented
