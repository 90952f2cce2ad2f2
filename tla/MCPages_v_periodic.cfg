\* A detail page whose only notification is lost.
SPECIFICATION PagesSpec
CONSTANTS
    MaxVersion = 1
PROPERTIES
    DetailConverges
