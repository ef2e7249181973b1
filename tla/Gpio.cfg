SPECIFICATION Spec
CONSTANTS
    led = led
    lamp = lamp
    button = button
    relay = relay
    noChip = noChip
    noDirection = noDirection
    NULL = NULL
    Bindings <- MCBindings
    chip_number <- ChipNumber
    line_number <- LineNumber
    direction <- Directions
    MAX_CHIP_NUMBER = 2
    Retries = FALSE
    MaxSet = 2
INVARIANTS CountIsOpen OpenHoldsLine
